---- MODULE Spec2Model ----
(***************************************************************************)
(* A model of DKTools.IO.Directory (src/DKTools/IO Directory.js): the      *)
(* enumeration entry points getAll / getFiles / getDirectories, the        *)
(* bounded recursive search findFiles / findDirectories in its synchronous *)
(* and asynchronous form, their promise wrappers, the typed getters and    *)
(* create / createAsync / remove; and of DKTools.IO.WebStorage             *)
(* (src/DKTools/IO WebStorage.js): load, save, remove and rename.          *)
(*                                                                         *)
(* The host filesystem is a finite tree of entities below one directory,   *)
(* Root, which is the Directory instance (`this`) every entry point is     *)
(* called on.  An asynchronous host call is an element of `pending`; the   *)
(* host completes pending calls one at a time, in any order.               *)
(***************************************************************************)
EXTENDS Integers, Sequences, FiniteSets, TLC

\* Bounds of the model.
MaxEntities == 4
MaxSearchLimit == 3

\* The directory the entry points are called on.
Root == 0

Entities == 1..MaxEntities
Nodes == 0..MaxEntities

\* Full names of the entities; an entity's name depends on its kind.
FileNames == <<"mytxt.ogg", "a.txt", "b.png", "c.txt", "f.txt", "g.png">>
DirNames == <<"sub", "img", "s.txt", "lib", "a.txt", "etc">>

NameChars(name) ==
    CASE name = "mytxt.ogg" -> <<"m", "y", "t", "x", "t", ".", "o", "g", "g">>
      [] name = "a.txt" -> <<"a", ".", "t", "x", "t">>
      [] name = "b.png" -> <<"b", ".", "p", "n", "g">>
      [] name = "c.txt" -> <<"c", ".", "t", "x", "t">>
      [] name = "f.txt" -> <<"f", ".", "t", "x", "t">>
      [] name = "g.png" -> <<"g", ".", "p", "n", "g">>
      [] name = "sub" -> <<"s", "u", "b">>
      [] name = "img" -> <<"i", "m", "g">>
      [] name = "s.txt" -> <<"s", ".", "t", "x", "t">>
      [] name = "lib" -> <<"l", "i", "b">>
      [] name = "etc" -> <<"e", "t", "c">>
      [] OTHER -> <<>>

VARIABLES
    fs,         \* host filesystem: node -> [kind, parent]; kind is "none",
                \* "file", "dir", "link" (a link to a directory, with its
                \* target) or "other" (an entry that is neither)
    localMode,  \* the trust gate, DKTools.IO.isLocalMode()
    object,     \* the options of the current (or last) call, with its entry point
    ret,        \* what the current (or last) call returned
    total,      \* findFiles / findDirectories: directories admitted
    processed,  \* findFiles / findDirectories: enumeration callbacks processed
    acc,        \* findFiles / findDirectories: the accumulator (files / directories)
    pending,    \* asynchronous host calls in flight
    reads,      \* node -> number of directory reads issued by the call
    host,       \* kinds of host filesystem calls issued by the call
    successes,  \* envelopes the caller's onSuccess has received, in order
    errors,     \* number of invocations of the caller's onError
    hist,       \* every <<processed, total>> the counters of the call went through
    localStorage, \* the web storage: key -> stored string, or NoItem
    other       \* a second find* invocation in flight beside the first: its
                \* options, its closure and the callbacks it has made

vars == <<fs, localMode, object, ret, total, processed, acc, pending, reads,
          host, successes, errors, hist, localStorage, other>>

----------------------------------------------------------------------------
\* Values

\* data: null is <<>>, an array xs is <<xs>>.
Null == <<>>
Some(xs) == <<xs>>
IsNull(data) == data = <<>>
Items(data) == IF data = <<>> THEN <<>> ELSE data[1]

Envelope(data, status) == [data |-> data, status |-> status]
Failure(status) == Envelope(Null, status)

Range(s) == {s[i] : i \in 1..Len(s)}

\* Templates.  A RegExp is a set of alternatives, each a sequence of tokens
\* (a character, or "ANY" for an unescaped dot), optionally anchored at the end.
NoTemplate == [kind |-> "none"]
TxtRegExp == [kind |-> "regexp", alts |-> {<<".", "t", "x", "t">>}, anchorEnd |-> TRUE]
StringTemplate(name) == [kind |-> "string", value |-> name]
OtherTemplate == [kind |-> "other"]

Templates ==
    {NoTemplate, TxtRegExp, StringTemplate("a.txt"), StringTemplate("sub"),
     OtherTemplate}

\* The search limits a caller passes; 0 stands for an omitted searchLimit.
SearchLimits == 0..MaxSearchLimit

----------------------------------------------------------------------------
\* Host filesystem

Exists(e) == fs[e].kind # "none"
IsFile(e) == fs[e].kind = "file"
\* A link to a directory is a directory to the host's stat, which follows it.
IsDirectory(e) == fs[e].kind \in {"dir", "link"}
FullName(e) ==
    IF e = Root THEN "root"
    ELSE IF fs[e].kind = "file" THEN FileNames[e] ELSE DirNames[e]

\* The host removes a directory only when it has no entry of any kind.
HostRefusesRmdir(d) == \E e \in Entities : fs[e].kind # "none" /\ fs[e].parent = d

Children(d) == {e \in Entities : fs[e].kind # "none" /\ fs[e].parent = d}

\* The entries of a directory in the host's order.
RECURSIVE Ascending(_)
Ascending(S) ==
    IF S = {} THEN <<>>
    ELSE LET m == CHOOSE x \in S : \A y \in S : x <= y
         IN <<m>> \o Ascending(S \ {m})

\* The directory a path leads to: the target of a link, the directory itself.
Resolve(d) == IF fs[d].kind = "link" THEN fs[d].target ELSE d

Readdir(d) == Ascending(Children(Resolve(d)))

----------------------------------------------------------------------------
\* Templates

\* RegExp.prototype.test on a full name.
RegExpTest(re, name) ==
    LET cs == NameChars(name)
    IN \E alt \in re.alts :
          \E i \in 1..(Len(cs) - Len(alt) + 1) :
              /\ \A k \in 1..Len(alt) : alt[k] = "ANY" \/ alt[k] = cs[i + k - 1]
              /\ re.anchorEnd => i + Len(alt) - 1 = Len(cs)

\* getAll: a RegExp or a string template filters the names, anything else does not.
GetAllMatches(template, name) ==
    IF template.kind = "regexp" THEN RegExpTest(template, name)
    ELSE IF template.kind = "string" THEN name = template.value
    ELSE TRUE

\* Mutant: the template is ignored.
FindMatchesAll(template, name) == TRUE

\* findFiles / findDirectories: the test that guards files.push / directories.push.
FindMatches(template, name) ==
    IF template.kind = "regexp" /\ RegExpTest(template, name) THEN TRUE
    ELSE IF template.kind = "none" THEN TRUE
    ELSE IF template.kind = "string" THEN name = template.value
    ELSE FALSE

----------------------------------------------------------------------------
\* getAll

\* The part of the state a host call changes.  gone: the entries another
\* process has removed since the callback that is running looked at them.
World(p, r, h) == [pending |-> p, reads |-> r, host |-> h, gone |-> {}]

\* Mutant: the path of a directory is not looked at again.
ExistsAsListed(d, w) == Exists(d)

\* this.exists(), as the running call sees it.
ExistsNow(d, w) == Exists(d) /\ d \notin w.gone

Touch(w, kinds) == [w EXCEPT !.host = @ \cup kinds]
IssueRead(w, d) == [w EXCEPT !.reads[d] = @ + 1, !.host = @ \cup {"readdir"}]

\* getAll's processData: filter the names, wrap each one as a File or a Directory.
GetAllProcessData(names, template) ==
    LET kept == SelectSeq(names, LAMBDA e : GetAllMatches(template, FullName(e)))
        data == SelectSeq(kept, LAMBDA e : IsFile(e) \/ IsDirectory(e))
    IN Envelope(Some(data), "OK")

\* The host stat calls of processData: one per name that passes the template.
StatsOf(names, template) ==
    IF \E i \in 1..Len(names) : GetAllMatches(template, FullName(names[i]))
    THEN {"stat"} ELSE {}

\* Mutant: the directory read is issued although the callback is missing.
GetAllReadsWithoutCallback(d, o, w) ==
    IF ~o.present THEN
        [env |-> Failure("ERROR_OPTIONS_IS_NOT_AVAILABLE"), w |-> w]
    ELSE IF ~localMode THEN
        [env |-> Failure("ERROR_NOT_LOCAL_MODE"), w |-> w]
    ELSE IF ~ExistsNow(d, w) THEN
        [env |-> Failure("ERROR_PATH_DOES_NOT_EXIST"), w |-> Touch(w, {"exists"})]
    ELSE IF o.sync THEN
        [env |-> GetAllProcessData(Readdir(d), o.template),
         w |-> Touch(IssueRead(Touch(w, {"exists"}), d), StatsOf(Readdir(d), o.template))]
    ELSE
        [env |-> Failure(IF o.hasOnSuccess THEN "WAIT_FOR_ASYNC_OPERATION"
                         ELSE "ERROR_CALLBACK_IS_NOT_AVAILABLE"),
         w |-> [IssueRead(Touch(w, {"exists"}), d) EXCEPT
                   !.pending = @ \cup {[call |-> "readdir", dir |-> d]}]]

\* getAll called on directory d with options o, in world w: the envelope it
\* returns and the world it leaves.
GetAll(d, o, w) ==
    IF ~o.present THEN
        [env |-> Failure("ERROR_OPTIONS_IS_NOT_AVAILABLE"), w |-> w]
    ELSE IF ~localMode THEN
        [env |-> Failure("ERROR_NOT_LOCAL_MODE"), w |-> w]
    ELSE IF ~ExistsNow(d, w) THEN
        [env |-> Failure("ERROR_PATH_DOES_NOT_EXIST"), w |-> Touch(w, {"exists"})]
    ELSE IF o.sync THEN
        [env |-> GetAllProcessData(Readdir(d), o.template),
         w |-> Touch(IssueRead(Touch(w, {"exists"}), d), StatsOf(Readdir(d), o.template))]
    ELSE IF ~o.hasOnSuccess THEN
        [env |-> Failure("ERROR_CALLBACK_IS_NOT_AVAILABLE"),
         w |-> Touch(w, {"exists"})]
    ELSE
        [env |-> Failure("WAIT_FOR_ASYNC_OPERATION"),
         w |-> [IssueRead(Touch(w, {"exists"}), d) EXCEPT
                   !.pending = @ \cup {[call |-> "readdir", dir |-> d]}]]

\* Mutant: the kind filter of getFiles keeps every entity.
FilesOfAll(env) == env

\* getFiles: object = object || {}, then the callback check, then getAll.
FilesOf(env) ==
    Envelope(Some(SelectSeq(Items(env.data), LAMBDA e : IsFile(e))), env.status)

GetFiles(d, o, w) ==
    LET obj == [o EXCEPT !.present = TRUE]
    IN IF obj.sync THEN
           LET r == GetAll(d, obj, w)
           IN IF r.env.status = "OK" THEN [r EXCEPT !.env = FilesOf(r.env)] ELSE r
       ELSE IF ~obj.hasOnSuccess THEN
           [env |-> Failure("ERROR_CALLBACK_IS_NOT_AVAILABLE"), w |-> w]
       ELSE GetAll(d, obj, w)

\* Mutant: the kind filter of getDirectories keeps the files.
DirectoriesOfFiles(env) ==
    Envelope(Some(SelectSeq(Items(env.data), LAMBDA e : IsFile(e))), env.status)

\* getDirectories: reads object.sync first, which throws on a missing object.
DirectoriesOf(env) ==
    Envelope(Some(SelectSeq(Items(env.data), LAMBDA e : IsDirectory(e))), env.status)

GetDirectories(d, o, w) ==
    IF ~o.present THEN [env |-> Failure("TypeError"), w |-> w]
    ELSE IF o.sync THEN
        LET r == GetAll(d, o, w)
        IN IF r.env.status = "OK" THEN [r EXCEPT !.env = DirectoriesOf(r.env)] ELSE r
    ELSE IF ~o.hasOnSuccess THEN
        [env |-> Failure("ERROR_CALLBACK_IS_NOT_AVAILABLE"), w |-> w]
    ELSE GetAll(d, o, w)

----------------------------------------------------------------------------
\* findFiles / findDirectories

\* Mutant: an omitted searchLimit defaults to 2.
SearchLimitDefaultsToTwo(o) == IF o.searchLimit = 0 THEN 2 ELSE o.searchLimit

\* const searchLimit = object.searchLimit || 1
SearchLimitOf(o) == IF o.searchLimit = 0 THEN 1 ELSE o.searchLimit

\* Mutant: the budget test admits one directory too many.
AdmitsInclusive(t, searchLimit) == t <= searchLimit

\* The budget test that admits a discovered directory.
Admits(t, searchLimit) == t < searchLimit

\* Mutant: the completion test fires one callback early.
CompleteOneEarly(t, p) == p >= t - 1

\* The completion test of the asynchronous walk.
Complete(t, p) == t = p

\* The closure of one find* call, with the world it runs in.
Closure(t, p, a, w, h) ==
    [total |-> t, processed |-> p, acc |-> a, pending |-> w.pending,
     reads |-> w.reads, host |-> w.host, gone |-> w.gone, hist |-> h]

WorldOf(st) == [World(st.pending, st.reads, st.host) EXCEPT !.gone = st.gone]
InWorld(st, w) ==
    [st EXCEPT !.pending = w.pending, !.reads = w.reads, !.host = w.host]

\* Mutant: an admitted directory is not counted.
AdmitForgets(st) == st

\* total++
Admit(st) ==
    [st EXCEPT !.total = @ + 1, !.hist = @ \cup {<<st.processed, st.total + 1>>}]

\* Mutant: a processed callback is not counted.
ProcessForgets(st) == st

\* processed++
Process(st) ==
    [st EXCEPT !.processed = @ + 1, !.hist = @ \cup {<<st.processed + 1, st.total>>}]

Push(st, e) == [st EXCEPT !.acc = Append(@, e)]

\* The options find* passes to the enumeration of an admitted directory.
NestedOptions(o) ==
    [present |-> TRUE, sync |-> o.sync, hasOnSuccess |-> TRUE,
     template |-> NoTemplate]

RECURSIVE FindFilesProcessData(_, _, _)
RECURSIVE FindFilesProcessDirectory(_, _, _)

FindFilesProcessData(data, o, st) ==
    IF data = <<>> THEN st
    ELSE LET entity == Head(data)
             st1 == IF IsFile(entity) THEN
                        IF FindMatches(o.template, FullName(entity))
                        THEN Push(Touch(st, {"stat"}), entity)
                        ELSE Touch(st, {"stat"})
                    ELSE IF Admits(st.total, SearchLimitOf(o)) /\ IsDirectory(entity)
                    THEN FindFilesProcessDirectory(entity, o, Admit(Touch(st, {"stat"})))
                    ELSE Touch(st, {"stat"})
         IN FindFilesProcessData(Tail(data), o, st1)

FindFilesProcessDirectory(directory, o, st) ==
    LET r == GetAll(directory, NestedOptions(o), WorldOf(st))
    IN IF o.sync
       THEN FindFilesProcessData(Items(r.env.data), o, InWorld(st, r.w))
       ELSE InWorld(st, r.w)

\* Mutant: only a directory that matched the template is descended into.
DescendsOnlyIfMatched(matched, t, searchLimit) == matched /\ Admits(t, searchLimit)

\* findDirectories: the test that guards total++ and processDirectory(directory)
\* comes after the template test and does not read its outcome.
Descends(matched, t, searchLimit) == Admits(t, searchLimit)

RECURSIVE FindDirectoriesProcessData(_, _, _)
RECURSIVE FindDirectoriesProcessDirectory(_, _, _)

FindDirectoriesProcessData(data, o, st) ==
    IF data = <<>> THEN st
    ELSE LET directory == Head(data)
             matched == FindMatches(o.template, FullName(directory))
             st1 == IF matched THEN Push(st, directory) ELSE st
             st2 == IF Descends(matched, st1.total, SearchLimitOf(o))
                    THEN FindDirectoriesProcessDirectory(directory, o, Admit(st1))
                    ELSE st1
         IN FindDirectoriesProcessData(Tail(data), o, st2)

FindDirectoriesProcessDirectory(directory, o, st) ==
    LET r == GetDirectories(directory, NestedOptions(o), WorldOf(st))
    IN IF o.sync
       THEN FindDirectoriesProcessData(Items(r.env.data), o, InWorld(st, r.w))
       ELSE InWorld(st, r.w)

\* The onSuccess find* gives to the enumeration of an admitted directory:
\* processed++, then processData(result.data).
FindOnSuccess(o, result, st) ==
    IF o.entry = "findFiles"
    THEN FindFilesProcessData(Items(result.data), o, Process(st))
    ELSE FindDirectoriesProcessData(Items(result.data), o, Process(st))

IsFindCall(o) == o.entry \in {"findFiles", "findDirectories"}

\* The world at the start of a call: nothing in flight, no host call made yet.
FreshWorld == World({}, [n \in Nodes |-> 0], {})
NoClosure(w) == Closure(0, 0, <<>>, w, {})

\* findFiles / findDirectories up to their return: the preconditions, the
\* closure (total = 1, processed = 0), processDirectory(this), the envelope.
\* Mutant: the path is checked before the trust gate.
FindPreconditionPathFirst(o, w) ==
    IF ~o.present THEN
        [status |-> "ERROR_OPTIONS_IS_NOT_AVAILABLE", w |-> w]
    ELSE IF ~Exists(Root) THEN
        [status |-> "ERROR_PATH_DOES_NOT_EXIST", w |-> Touch(w, {"exists"})]
    ELSE IF ~localMode THEN
        [status |-> "ERROR_NOT_LOCAL_MODE", w |-> Touch(w, {"exists"})]
    ELSE IF ~o.sync /\ ~o.hasOnSuccess THEN
        [status |-> "ERROR_CALLBACK_IS_NOT_AVAILABLE", w |-> Touch(w, {"exists"})]
    ELSE [status |-> "OK", w |-> Touch(w, {"exists"})]

FindPrecondition(o, w) ==
    IF ~o.present THEN
        [status |-> "ERROR_OPTIONS_IS_NOT_AVAILABLE", w |-> w]
    ELSE IF ~localMode THEN
        [status |-> "ERROR_NOT_LOCAL_MODE", w |-> w]
    ELSE IF ~o.sync /\ ~o.hasOnSuccess THEN
        [status |-> "ERROR_CALLBACK_IS_NOT_AVAILABLE", w |-> w]
    ELSE IF ~Exists(Root) THEN
        [status |-> "ERROR_PATH_DOES_NOT_EXIST", w |-> Touch(w, {"exists"})]
    ELSE [status |-> "OK", w |-> Touch(w, {"exists"})]

FindFiles(o, w) ==
    LET pre == FindPrecondition(o, w)
        w1 == pre.w
    IN IF pre.status # "OK"
       THEN [env |-> Failure(pre.status), st |-> NoClosure(w1)]
       ELSE LET st == FindFilesProcessDirectory(
                          Root, o, Closure(1, 0, <<>>, w1, {<<0, 1>>}))
            IN [env |-> IF o.sync THEN Envelope(Some(st.acc), "OK")
                        ELSE Failure("WAIT_FOR_ASYNC_OPERATION"),
                st |-> st]

FindDirectories(o, w) ==
    LET pre == FindPrecondition(o, w)
        w1 == pre.w
    IN IF pre.status # "OK"
       THEN [env |-> Failure(pre.status), st |-> NoClosure(w1)]
       ELSE LET st == FindDirectoriesProcessDirectory(
                          Root, o, Closure(1, 0, <<>>, w1, {<<0, 1>>}))
            IN [env |-> IF o.sync THEN Envelope(Some(st.acc), "OK")
                        ELSE Failure("WAIT_FOR_ASYNC_OPERATION"),
                st |-> st]

----------------------------------------------------------------------------
\* create / remove

\* isEmpty: getAll({ sync: true }).data is null or has no element.
SyncOptions ==
    [present |-> TRUE, sync |-> TRUE, hasOnSuccess |-> FALSE,
     template |-> NoTemplate]

IsEmpty(d, w) ==
    LET r == GetAll(d, SyncOptions, w)
    IN [empty |-> IsNull(r.env.data) \/ Len(Items(r.env.data)) = 0, w |-> r.w]

\* Mutant: create does not look whether the directory exists.
CreateIgnoresExisting(d, w) ==
    IF ~localMode THEN
        [code |-> "ERROR_NOT_LOCAL_MODE", mkdir |-> FALSE, w |-> w]
    ELSE [code |-> "OK", mkdir |-> TRUE, w |-> Touch(w, {"exists", "mkdir"})]

\* create: the code it returns, whether it issues mkdirSync, the world it leaves.
Create(d, w) ==
    IF ~localMode THEN
        [code |-> "ERROR_NOT_LOCAL_MODE", mkdir |-> FALSE, w |-> w]
    ELSE IF Exists(d) THEN
        [code |-> "ERROR_DIRECTORY_ALREADY_EXISTS", mkdir |-> FALSE,
         w |-> Touch(w, {"exists"})]
    ELSE [code |-> "OK", mkdir |-> TRUE, w |-> Touch(w, {"exists", "mkdir"})]

\* createAsync: the promise executor.  resolve does not leave the executor, so
\* every statement after it runs too; the promise keeps the first code it was
\* resolved with ("unsettled": none yet).  With the trust gate denying, the
\* host fs module may be missing (hasFs false), and then the mkdir call throws
\* inside the executor of a promise that is already resolved.
CreateAsync(d, hasFs, w) ==
    LET code == IF ~localMode THEN "ERROR_NOT_LOCAL_MODE"
                ELSE IF Exists(d) THEN "ERROR_DIRECTORY_ALREADY_EXISTS"
                ELSE "unsettled"
        w1 == Touch(w, {"exists"})
    IN [code |-> code, mkdir |-> hasFs,
        w |-> IF hasFs
              THEN [Touch(w1, {"mkdir"}) EXCEPT
                       !.pending = @ \cup {[call |-> "mkdir", dir |-> d]}]
              ELSE w1]

\* Mutant: the path is not checked before the directory is examined.
RemoveSkipsPathCheck(d, o, w) ==
    IF ~localMode THEN
        [code |-> "ERROR_NOT_LOCAL_MODE", rmdir |-> FALSE, w |-> w]
    ELSE LET e == IsEmpty(d, w)
         IN IF ~e.empty THEN
                [code |-> "ERROR_DIRECTORY_IS_NOT_EMPTY", rmdir |-> FALSE, w |-> e.w]
            ELSE IF o.sync THEN
                [code |-> "OK", rmdir |-> FALSE, w |-> Touch(e.w, {"rmdir"})]
            ELSE
                [code |-> "WAIT_FOR_ASYNC_OPERATION", rmdir |-> FALSE,
                 w |-> [Touch(e.w, {"rmdir"}) EXCEPT
                           !.pending = @ \cup {[call |-> "rmdir", dir |-> d]}]]

\* remove: the code it returns, whether rmdirSync removes the directory, the
\* world it leaves.  rmdirSync throws on a directory the host finds non-empty.
Remove(d, o, w) ==
    IF ~localMode THEN
        [code |-> "ERROR_NOT_LOCAL_MODE", rmdir |-> FALSE, w |-> w]
    ELSE IF ~Exists(d) THEN
        [code |-> "ERROR_PATH_DOES_NOT_EXIST", rmdir |-> FALSE,
         w |-> Touch(w, {"exists"})]
    ELSE LET e == IsEmpty(d, Touch(w, {"exists"}))
         IN IF ~e.empty THEN
                [code |-> "ERROR_DIRECTORY_IS_NOT_EMPTY", rmdir |-> FALSE, w |-> e.w]
            ELSE IF o.sync THEN
                IF HostRefusesRmdir(d)
                THEN [code |-> "throws ENOTEMPTY", rmdir |-> FALSE,
                      w |-> Touch(e.w, {"rmdir"})]
                ELSE [code |-> "OK", rmdir |-> TRUE, w |-> Touch(e.w, {"rmdir"})]
            ELSE
                [code |-> "WAIT_FOR_ASYNC_OPERATION", rmdir |-> FALSE,
                 w |-> [Touch(e.w, {"rmdir"}) EXCEPT
                           !.pending = @ \cup {[call |-> "rmdir", dir |-> d]}]]

----------------------------------------------------------------------------
\* DKTools.IO.WebStorage (src/DKTools/IO WebStorage.js)

Keys == {"save", "config"}

\* Strings, by how they were made: a plain string, the JSON text of a value
\* (JSON.stringify), the base64 text of a compressed string
\* (LZString.compressToBase64).  NoItem: the key is not in the storage.
NoItem == [enc |-> "none"]
Plain(str) == [enc |-> "plain", str |-> str]
JsonText(v) == [enc |-> "json", v |-> v]
Compressed(text) == [enc |-> "lz", text |-> text]

\* The null of the host language, a value that is neither null nor a string
\* (an object, a number), a thrown exception.
JsNull == [enc |-> "null"]
Value(v) == [enc |-> "value", v |-> v]
Thrown == [enc |-> "thrown"]

StoredStrings ==
    {Plain(""), Plain("abc"), JsonText(Value("v")),
     Compressed(JsonText(Value("v"))), Compressed(Plain("abc"))}

Stores == [Keys -> StoredStrings \cup {NoItem}]
EmptyStore == [k \in Keys |-> NoItem]

\* LZString.decompressFromBase64: the string that was compressed; on a string
\* that is no compressed text it yields null or an empty string, or throws.
DecompressOutcomes(text) ==
    IF text.enc = "lz" THEN {text.text} ELSE {JsNull, Plain(""), Thrown}

\* JSON.parse: the value of a JSON text, null for null, a SyntaxError otherwise.
JsonParse(text) ==
    IF text.enc = "json" THEN text.v
    ELSE IF text.enc = "null" THEN JsNull
    ELSE Thrown

\* The data field of an envelope holding a value of the host language.
DataOf(x) == IF x = JsNull THEN Null ELSE Some(x)

LoadOptions == [decompress : BOOLEAN, parse : BOOLEAN]

\* Mutant: a failed parse stage hands the text over with the error status.
LoadKeepsData(key, o, dz) ==
    IF localStorage[key] = NoItem THEN Failure("ERROR_PATH_DOES_NOT_EXIST")
    ELSE LET data == localStorage[key]
             d1 == IF o.decompress THEN dz ELSE data
         IN IF data = Plain("") THEN Envelope(DataOf(data), "OK")
            ELSE IF d1 = Thrown THEN Failure("ERROR_DECOMPRESSING_DATA")
            ELSE IF ~o.parse THEN Envelope(DataOf(d1), "OK")
            ELSE IF JsonParse(d1) = Thrown
            THEN Envelope(DataOf(d1), "ERROR_PARSING_DATA")
            ELSE Envelope(DataOf(JsonParse(d1)), "OK")

\* Mutant: a failed decompression falls through to the parse stage.
LoadParsesAfterFailure(key, o, dz) ==
    IF localStorage[key] = NoItem THEN Failure("ERROR_PATH_DOES_NOT_EXIST")
    ELSE LET data == localStorage[key]
             d1 == IF o.decompress THEN dz ELSE data
         IN IF data = Plain("") THEN Envelope(DataOf(data), "OK")
            ELSE IF ~o.parse THEN
                IF d1 = Thrown THEN Failure("ERROR_DECOMPRESSING_DATA")
                ELSE Envelope(DataOf(d1), "OK")
            ELSE IF d1 = Thrown \/ JsonParse(d1) = Thrown
            THEN Failure("ERROR_PARSING_DATA")
            ELSE Envelope(DataOf(JsonParse(d1)), "OK")

\* load(key, object): the envelope it returns; dz is what the decompression
\* of the stored string yields.
Load(key, o, dz) ==
    IF localStorage[key] = NoItem THEN Failure("ERROR_PATH_DOES_NOT_EXIST")
    ELSE LET data == localStorage[key]
             d1 == IF o.decompress THEN dz ELSE data
         IN IF data = Plain("") THEN Envelope(DataOf(data), "OK")
            ELSE IF d1 = Thrown THEN Failure("ERROR_DECOMPRESSING_DATA")
            ELSE IF ~o.parse THEN Envelope(DataOf(d1), "OK")
            ELSE IF JsonParse(d1) = Thrown THEN Failure("ERROR_PARSING_DATA")
            ELSE Envelope(DataOf(JsonParse(d1)), "OK")

\* exists(key): localStorage.hasOwnProperty(key)
HasKey(store, key) == store[key] # NoItem

\* The data a caller saves: null, a string, a value that is neither.
SaveData == {JsNull, Plain(""), Plain("abc"), Value("v")}

\* JSON.stringify(data): the JSON text of the value.
JsonStringify(data) == JsonText(data)

\* LZString.compressToBase64(data): the compressed text of a string; an empty
\* string for null; for an empty string the library may answer either.
CompressOutcomes(data) ==
    IF data = JsNull THEN {Plain("")}
    ELSE IF data = Plain("") THEN {Plain(""), Compressed(data)}
    ELSE {Compressed(data)}

\* localStorage.setItem(key, data): the storage holds String(data).
ToStoredString(data) ==
    IF data = JsNull THEN JsonText(JsNull)
    ELSE IF data.enc = "value" THEN Plain("[object Object]")
    ELSE data

\* The options of save: none at all (object || {}), or overwrite (may be
\* omitted), stringify, compress.
SaveOptions ==
    {o \in [present : BOOLEAN, hasOverwrite : BOOLEAN, overwrite : BOOLEAN,
             stringify : BOOLEAN, compress : BOOLEAN] :
        /\ ~o.present => ~o.hasOverwrite /\ ~o.stringify /\ ~o.compress
        /\ ~o.hasOverwrite => ~o.overwrite}

\* Mutant: an omitted overwrite option counts as false.
OverwriteDefaultsToFalse(o) == o.hasOverwrite /\ o.overwrite

\* _.defaultTo(object.overwrite, true)
OverwriteOf(o) == IF o.hasOverwrite THEN o.overwrite ELSE TRUE

\* The data after the stringify stage of save.
Stringified(data, o) == IF o.stringify THEN JsonStringify(data) ELSE data

\* Mutant: save compresses first and stringifies the compressed text.
SaveStagesSwapped(data, o, cz) ==
    IF o.stringify
    THEN JsonStringify(IF o.compress THEN Compressed(data) ELSE data)
    ELSE IF o.compress THEN cz ELSE data

\* The stages of save: stringify, then compress; cz is what the compression
\* of the stringified data yields.
SaveStages(data, o, cz) == IF o.compress THEN cz ELSE Stringified(data, o)

\* save(key, data, object): the code it returns and the storage it leaves.
StorageSave(store, key, data, o, cz) ==
    IF ~OverwriteOf(o) /\ HasKey(store, key)
    THEN [code |-> "ERROR_OVERWRITING_IS_NOT_AVAILABLE", store |-> store]
    ELSE [code |-> "OK",
          store |-> [store EXCEPT ![key] = ToStoredString(SaveStages(data, o, cz))]]

\* remove(key)
StorageRemove(store, key) ==
    IF ~HasKey(store, key)
    THEN [code |-> "ERROR_PATH_DOES_NOT_EXIST", store |-> store]
    ELSE [code |-> "OK", store |-> [store EXCEPT ![key] = NoItem]]

\* rename(oldKey, newKey, overwrite): getItem(oldKey), setItem(newKey, data),
\* then removeItem(oldKey).
StorageRename(store, oldKey, newKey, overwrite) ==
    IF ~HasKey(store, oldKey)
    THEN [code |-> "ERROR_PATH_DOES_NOT_EXIST", store |-> store]
    ELSE IF ~overwrite /\ HasKey(store, newKey)
    THEN [code |-> "ERROR_OVERWRITING_IS_NOT_AVAILABLE", store |-> store]
    ELSE LET data == store[oldKey]
             set == [store EXCEPT ![newKey] = data]
         IN [code |-> "OK", store |-> [set EXCEPT ![oldKey] = NoItem]]

----------------------------------------------------------------------------
\* Initial states

Absent == [kind |-> "none", parent |-> Root]

\* The filesystems over the nodes 0..k: Root is missing or a directory; the
\* entities present are 1..j for some j, each of one of the kinds given, with
\* parent Root or a directory among the entities before it.
RECURSIVE TreesUpTo(_, _)
TreesUpTo(k, kinds) ==
    IF k = 0 THEN {[n \in {Root} |-> [kind |-> "dir", parent |-> Root]],
                   [n \in {Root} |-> Absent]}
    ELSE LET Extend(t, rec) == [n \in 0..k |-> IF n = k THEN rec ELSE t[n]]
         IN UNION {
               {Extend(t, Absent)} \cup
               IF t[k - 1].kind = "none" THEN {}
               ELSE {Extend(t, [kind |-> kd, parent |-> p]) :
                        kd \in kinds,
                        p \in {j \in 0..(k - 1) : t[j].kind = "dir"}}
               : t \in TreesUpTo(k - 1, kinds)}

\* Trees of files and directories, and trees that also hold entries that are
\* neither (a link, a pipe, a socket).
Trees == TreesUpTo(MaxEntities, {"file", "dir"})
AnyTrees == TreesUpTo(MaxEntities, {"file", "dir", "other"})

NoCall ==
    [entry |-> "none", present |-> FALSE, sync |-> FALSE, hasOnSuccess |-> FALSE,
     template |-> NoTemplate, searchLimit |-> 0]

\* No second invocation was made.
NoOther == [object |-> NoCall, st |-> NoClosure(FreshWorld), successes |-> <<>>]

\* The directory and the web storage share no state: the initial states vary
\* the filesystem over an empty storage, and the storage beside a missing
\* directory.
Init ==
    /\ \/ fs \in Trees /\ localMode \in BOOLEAN /\ localStorage = EmptyStore
       \/ /\ fs = [n \in Nodes |-> Absent]
          /\ localMode = FALSE
          /\ localStorage \in Stores \ {EmptyStore}
    /\ object = NoCall
    /\ ret = Failure("none")
    /\ total = 0
    /\ processed = 0
    /\ acc = <<>>
    /\ pending = {}
    /\ reads = [n \in Nodes |-> 0]
    /\ host = {}
    /\ successes = <<>>
    /\ errors = 0
    /\ hist = {}
    /\ other = NoOther

----------------------------------------------------------------------------
\* Calls of the entry points.  A caller starts a call when no asynchronous
\* host call of an earlier one is in flight.  Every call starts from a fresh
\* closure and a fresh record of host calls, so what a call does depends on
\* the filesystem and the trust gate alone: calls are started from the initial
\* state and after create and remove, the calls that change the filesystem.

Idle ==
    /\ pending = {}
    /\ object.entry \in {"none", "create", "remove", "isEmpty", "WebStorage.save",
                         "WebStorage.remove", "WebStorage.rename"}

\* The options objects a caller passes: none at all, or one with sync, an
\* onSuccess callback (asynchronous calls only) and a template.
GetOptions ==
    {o \in [present : BOOLEAN, sync : BOOLEAN, hasOnSuccess : BOOLEAN,
             template : Templates] :
        /\ ~o.present => ~o.sync /\ ~o.hasOnSuccess /\ o.template = NoTemplate
        /\ o.sync => ~o.hasOnSuccess}

\* The searchLimit a caller passes beside them.
LimitsFor(o) == IF o.present THEN SearchLimits ELSE {0}

Object(entry, o, limit) ==
    [entry |-> entry, present |-> o.present, sync |-> o.sync,
     hasOnSuccess |-> o.hasOnSuccess, template |-> o.template,
     searchLimit |-> limit]

\* The state a call leaves when it returns env, with closure and world st.
Returns(obj, env, st) ==
    /\ object' = obj
    /\ ret' = env
    /\ total' = st.total
    /\ processed' = st.processed
    /\ acc' = st.acc
    /\ pending' = st.pending
    /\ reads' = st.reads
    /\ host' = st.host
    /\ hist' = st.hist
    /\ successes' = <<>>
    /\ errors' = 0
    /\ localStorage' = localStorage
    /\ other' = other

CallGetAll ==
    /\ Idle
    /\ \E o \in GetOptions :
          LET r == GetAll(Root, o, FreshWorld)
          IN Returns(Object("getAll", o, 0), r.env, NoClosure(r.w))
    /\ UNCHANGED <<fs, localMode>>

CallGetFiles ==
    /\ Idle
    /\ \E o \in GetOptions :
          LET r == GetFiles(Root, o, FreshWorld)
          IN Returns(Object("getFiles", o, 0), r.env, NoClosure(r.w))
    /\ UNCHANGED <<fs, localMode>>

CallGetDirectories ==
    /\ Idle
    /\ \E o \in GetOptions :
          LET r == GetDirectories(Root, o, FreshWorld)
          IN Returns(Object("getDirectories", o, 0), r.env, NoClosure(r.w))
    /\ UNCHANGED <<fs, localMode>>

CallFindFiles ==
    /\ Idle
    /\ \E o \in GetOptions : \E limit \in LimitsFor(o) :
          LET obj == Object("findFiles", o, limit)
              r == FindFiles(obj, FreshWorld)
          IN Returns(obj, r.env, r.st)
    /\ UNCHANGED <<fs, localMode>>

CallFindDirectories ==
    /\ Idle
    /\ \E o \in GetOptions : \E limit \in LimitsFor(o) :
          LET obj == Object("findDirectories", o, limit)
              r == FindDirectories(obj, FreshWorld)
          IN Returns(obj, r.env, r.st)
    /\ UNCHANGED <<fs, localMode>>

CallCreate ==
    /\ Idle
    /\ LET r == Create(Root, FreshWorld)
       IN /\ Returns([NoCall EXCEPT !.entry = "create"], Failure(r.code),
                     NoClosure(r.w))
          /\ fs' = IF r.mkdir THEN [fs EXCEPT ![Root].kind = "dir"] ELSE fs
    /\ UNCHANGED localMode

CallRemove ==
    /\ Idle
    /\ \E sync \in BOOLEAN, cb \in BOOLEAN :
          LET obj == [NoCall EXCEPT !.entry = "remove", !.present = TRUE,
                                    !.sync = sync, !.hasOnSuccess = cb]
              r == Remove(Root, obj, FreshWorld)
          IN /\ sync => ~cb
             /\ Returns(obj, Failure(r.code), NoClosure(r.w))
             /\ fs' = IF r.rmdir THEN [fs EXCEPT ![Root].kind = "none"] ELSE fs
    /\ UNCHANGED localMode

\* createAsync(): the promise executor runs before the call returns; ret holds
\* what the promise is resolved with.
CallCreateAsync ==
    /\ Idle
    /\ \E hasFs \in IF localMode THEN {TRUE} ELSE BOOLEAN :
          LET r == CreateAsync(Root, hasFs, FreshWorld)
          IN Returns([NoCall EXCEPT !.entry = "createAsync"], Failure(r.code),
                     NoClosure(r.w))
    /\ UNCHANGED <<fs, localMode>>

\* WebStorage.load(key, object): synchronous, the storage is left as it is.
\* dz: what the decompression of the stored string yields; prev: the call
\* made before this one and the status it returned.
WebStorageLoad ==
    /\ Idle
    /\ \E key \in Keys, o \in LoadOptions :
          \E dz \in DecompressOutcomes(localStorage[key]) :
             Returns([entry |-> "WebStorage.load", key |-> key,
                      decompress |-> o.decompress, parse |-> o.parse,
                      dz |-> dz, prev |-> [call |-> object, status |-> ret.status]],
                     Load(key, o, dz), NoClosure(FreshWorld))
    /\ UNCHANGED <<fs, localMode>>

----------------------------------------------------------------------------
\* Completions of the asynchronous host calls

ReadRequest(d) == [call |-> "readdir", dir |-> d]

\* The closure of the call in flight, with request req taken off.
Current(req) ==
    Closure(total, processed, acc, World(pending \ {req}, reads, host), hist)

Install(st) ==
    /\ total' = st.total
    /\ processed' = st.processed
    /\ acc' = st.acc
    /\ pending' = st.pending
    /\ reads' = st.reads
    /\ host' = st.host
    /\ hist' = st.hist
    /\ localStorage' = localStorage
    /\ other' = other

\* The template the enumeration in flight was issued with.
ReadTemplate == IF object.entry \in {"findFiles", "findDirectories"}
                THEN NoTemplate ELSE object.template

\* fs.readdir calls back without error: getAll's callback builds the envelope
\* and hands it to the onSuccess it was given.
ReaddirDone(d) ==
    /\ ReadRequest(d) \in pending
    /\ Exists(d)
    /\ LET names == Readdir(d)
           env == GetAllProcessData(names, ReadTemplate)
           st0 == Touch(Current(ReadRequest(d)), StatsOf(names, ReadTemplate))
       IN CASE object.entry = "getAll" ->
                 /\ Install(st0)
                 /\ successes' = Append(successes, env)
            [] object.entry = "getFiles" ->
                 /\ Install(st0)
                 /\ successes' = Append(successes, FilesOf(env))
            [] object.entry = "getDirectories" ->
                 /\ Install(st0)
                 /\ successes' = Append(successes, DirectoriesOf(env))
            [] object.entry = "findFiles" ->
                 LET st == FindOnSuccess(object, env, st0)
                 IN /\ Install(st)
                    /\ successes' =
                          IF Complete(st.total, st.processed)
                          THEN Append(successes, Envelope(Some(st.acc), "OK"))
                          ELSE successes
            [] object.entry = "findDirectories" ->
                 LET st == FindOnSuccess(object, DirectoriesOf(env), st0)
                 IN /\ Install(st)
                    /\ successes' =
                          IF Complete(st.total, st.processed)
                          THEN Append(successes, Envelope(Some(st.acc), "OK"))
                          ELSE successes
    /\ UNCHANGED <<fs, localMode, object, ret, errors>>

\* __processError(error, onError): the error is handed to the caller's onError.
ProcessError(count) == count + 1

\* fs.readdir calls back with an error: __processError hands it to onError.
ReaddirError(d) ==
    /\ ReadRequest(d) \in pending
    /\ pending' = pending \ {ReadRequest(d)}
    /\ errors' = ProcessError(errors)
    /\ UNCHANGED <<fs, localMode, object, ret, total, processed, acc, reads,
                   host, successes, hist, localStorage, other>>

\* resolve / reject on the promise of createAsync: the first one settles it.
Settle(code) == IF ret.status = "unsettled" THEN Failure(code) ELSE ret

MkdirRequest == [call |-> "mkdir", dir |-> Root]

\* fs.mkdir calls back without error: the directory exists, resolve(OK).
MkdirDone ==
    /\ MkdirRequest \in pending
    /\ ~Exists(Root)
    /\ pending' = {}
    /\ fs' = [fs EXCEPT ![Root].kind = "dir"]
    /\ ret' = Settle("OK")
    /\ UNCHANGED <<localMode, object, total, processed, acc, reads, host,
                   successes, errors, hist, localStorage, other>>

\* fs.mkdir calls back with an error (the path exists, or another host
\* failure): reject(error).
MkdirError ==
    /\ MkdirRequest \in pending
    /\ pending' = {}
    /\ ret' = Settle("rejected")
    /\ UNCHANGED <<fs, localMode, object, total, processed, acc, reads, host,
                   successes, errors, hist, localStorage, other>>

\* fs.rmdir calls back with an error (the host finds the directory non-empty,
\* or another host failure): __processError hands it to onError.
RmdirError ==
    /\ [call |-> "rmdir", dir |-> Root] \in pending
    /\ pending' = pending \ {[call |-> "rmdir", dir |-> Root]}
    /\ errors' = ProcessError(errors)
    /\ UNCHANGED <<fs, localMode, object, ret, total, processed, acc, reads,
                   host, successes, hist, localStorage, other>>

\* fs.rmdir calls back without error: onSuccess(OK), when it is a function.
RmdirDone ==
    /\ [call |-> "rmdir", dir |-> Root] \in pending
    /\ ~HostRefusesRmdir(Root)
    /\ pending' = pending \ {[call |-> "rmdir", dir |-> Root]}
    /\ fs' = [fs EXCEPT ![Root].kind = "none"]
    /\ successes' = IF object.hasOnSuccess
                    THEN Append(successes, Envelope(Null, "OK")) ELSE successes
    /\ UNCHANGED <<localMode, object, ret, total, processed, acc, reads, host,
                   errors, hist, localStorage, other>>

Next ==
    \/ CallGetAll
    \/ CallGetFiles
    \/ CallGetDirectories
    \/ CallFindFiles
    \/ CallFindDirectories
    \/ CallCreate
    \/ CallRemove
    \/ \E d \in Nodes : ReaddirDone(d)
    \/ \E d \in Nodes : ReaddirError(d)
    \/ RmdirDone
    \/ RmdirError
    \/ WebStorageLoad

Spec == Init /\ [][Next]_vars

\* The enumeration and the mutation of a directory whose entries may be of any
\* kind: getAll / getFiles / getDirectories, create / createAsync / remove and
\* the completions of their host calls.
DirInit ==
    /\ fs \in AnyTrees
    /\ localMode \in BOOLEAN
    /\ object = NoCall
    /\ ret = Failure("none")
    /\ total = 0
    /\ processed = 0
    /\ acc = <<>>
    /\ pending = {}
    /\ reads = [n \in Nodes |-> 0]
    /\ host = {}
    /\ successes = <<>>
    /\ errors = 0
    /\ hist = {}
    /\ other = NoOther
    /\ localStorage = EmptyStore

DirNext ==
    \/ CallGetAll
    \/ CallGetFiles
    \/ CallGetDirectories
    \/ CallCreate
    \/ CallCreateAsync
    \/ CallRemove
    \/ ReaddirDone(Root)
    \/ ReaddirError(Root)
    \/ MkdirDone
    \/ MkdirError
    \/ RmdirDone
    \/ RmdirError

DirSpec == DirInit /\ [][DirNext]_vars

\* The host calls back on the directory read it was given, with the names or
\* with an error: the steps of DirNext that take the read out of flight.
ReadCompletes ==
    /\ ReadRequest(Root) \in pending
    /\ pending' = pending \ {ReadRequest(Root)}

DirLiveSpec == DirInit /\ [][DirNext]_vars /\ WF_pending(ReadCompletes)

\* The asynchronous search on an unchanging filesystem whose host reports no
\* error and completes every directory read it was given.
LiveNext ==
    \/ CallFindFiles
    \/ CallFindDirectories
    \/ \E d \in Nodes : ReaddirDone(d)

ReadInFlight == \E d \in Nodes : ReadRequest(d) \in pending

\* The host delivers the completion of a directory read in flight.  The steps
\* of LiveNext that count a processed callback are the ReaddirDone steps, and
\* one is possible exactly while a read is in flight.
HostCompletes == ReadInFlight /\ processed' = processed + 1

LiveSpec == Init /\ [][LiveNext]_vars /\ WF_processed(HostCompletes)

----------------------------------------------------------------------------
\* The asynchronous search beside other activity: the trust gate changes
\* between two callbacks, another process removes an empty directory between
\* two callbacks, or while a callback runs, after getAll's processData has
\* looked at the directory and before find* enumerates it.

GateChanges ==
    /\ IsFindCall(object) /\ \E d \in Nodes : ReadRequest(d) \in pending
    /\ localMode' = ~localMode
    /\ UNCHANGED <<fs, object, ret, total, processed, acc, pending, reads, host,
                   successes, errors, hist, localStorage, other>>

Removable(e) == fs[e].kind # "none" /\ \A c \in Entities : fs[c].kind # "none" => fs[c].parent # e

HostRemoves(e) ==
    /\ IsFindCall(object) /\ \E d \in Nodes : ReadRequest(d) \in pending
    /\ Removable(e)
    /\ fs' = [fs EXCEPT ![e] = Absent]
    /\ UNCHANGED <<localMode, object, ret, total, processed, acc, pending, reads,
                   host, successes, errors, hist, localStorage, other>>

\* The callback of the read of d, during which directory e of d is removed.
ReaddirDoneRacing(d, e) ==
    /\ IsFindCall(object)
    /\ ReadRequest(d) \in pending
    /\ Exists(d)
    /\ e \in Children(d) /\ IsDirectory(e) /\ Removable(e)
    /\ LET names == Readdir(d)
           env == GetAllProcessData(names, ReadTemplate)
           st0 == [Touch(Current(ReadRequest(d)), StatsOf(names, ReadTemplate))
                      EXCEPT !.gone = {e}]
           st == FindOnSuccess(object,
                               IF object.entry = "findFiles" THEN env
                               ELSE DirectoriesOf(env), st0)
       IN /\ Install(st)
          /\ successes' =
                IF Complete(st.total, st.processed)
                THEN Append(successes, Envelope(Some(st.acc), "OK"))
                ELSE successes
    /\ fs' = [fs EXCEPT ![e] = Absent]
    /\ UNCHANGED <<localMode, object, ret, errors>>

RaceNext ==
    \/ CallFindFiles
    \/ CallFindDirectories
    \/ \E d \in Nodes : ReaddirDone(d)
    \/ \E d \in Nodes : ReaddirError(d)
    \/ \E d \in Nodes, e \in Entities : ReaddirDoneRacing(d, e)
    \/ GateChanges
    \/ \E e \in Entities : HostRemoves(e)

\* The host calls back on a read in flight, with the names or with an error.
BranchCompletes ==
    /\ ReadInFlight
    /\ \/ processed' = processed + 1 /\ errors' = errors
       \/ processed' = processed /\ errors' = errors + 1

RaceSpec ==
    Init /\ [][RaceNext]_vars /\ WF_<<processed, errors>>(BranchCompletes)

----------------------------------------------------------------------------
\* Two asynchronous find* invocations in flight together.  Each invocation
\* has the closure its call created: the first in total / processed / acc,
\* the second in other.st.

\* Mutant: the counters are shared, a callback of one invocation counts on
\* the counters of its sibling.
SharedCounters(st, sibling) ==
    [st EXCEPT !.total = sibling.total, !.processed = sibling.processed]

\* let total = 1, processed = 0 and const files = [] are locals of the call:
\* the callbacks of an invocation work on the closure of that invocation.
PrivateCounters(st, sibling) == st

\* The closure of the first invocation as a record.
FirstClosure == Closure(total, processed, acc, World(pending, reads, host), hist)

\* The callback of the read of d, in the invocation with options o and
\* closure st: getAll's callback builds the envelope, find*'s onSuccess
\* counts it and processes the data.
FindCallback(o, st, d) ==
    LET names == Readdir(d)
        env == GetAllProcessData(names, NoTemplate)
        st0 == Touch([st EXCEPT !.pending = @ \ {ReadRequest(d)}],
                     StatsOf(names, NoTemplate))
    IN FindOnSuccess(o, IF o.entry = "findFiles" THEN env
                        ELSE DirectoriesOf(env), st0)

\* if (total === processed) object.onSuccess(...), after a callback.
Deliveries(delivered, st) ==
    IF Complete(st.total, st.processed)
    THEN Append(delivered, Envelope(Some(st.acc), "OK"))
    ELSE delivered

\* The options of the two invocations: asynchronous, with an onSuccess.
PairLimits == {2, MaxSearchLimit}
PairObjects ==
    {[entry |-> e, present |-> TRUE, sync |-> FALSE, hasOnSuccess |-> TRUE,
      template |-> NoTemplate, searchLimit |-> l] :
        e \in {"findFiles", "findDirectories"}, l \in PairLimits}

FindCall(obj) ==
    IF obj.entry = "findFiles" THEN FindFiles(obj, FreshWorld)
    ELSE FindDirectories(obj, FreshWorld)

\* The first invocation.
CallFirstFind ==
    /\ Idle /\ object = NoCall
    /\ \E obj \in PairObjects :
          LET r == FindCall(obj)
          IN Returns(obj, r.env, r.st)
    /\ UNCHANGED <<fs, localMode>>

\* The second invocation, made while the first is in flight.
CallSecondFind ==
    /\ IsFindCall(object) /\ ReadInFlight
    /\ other = NoOther
    /\ \E obj \in PairObjects :
          other' = [object |-> obj, st |-> FindCall(obj).st, successes |-> <<>>]
    /\ UNCHANGED <<fs, localMode, object, ret, total, processed, acc, pending,
                   reads, host, successes, errors, hist, localStorage>>

\* A branch of the first invocation completes.
FirstReaddirDone(d) ==
    /\ IsFindCall(object)
    /\ ReadRequest(d) \in pending
    /\ LET st == FindCallback(object, PrivateCounters(FirstClosure, other.st), d)
       IN /\ Install(st)
          /\ successes' = Deliveries(successes, st)
    /\ UNCHANGED <<fs, localMode, object, ret, errors>>

\* A branch of the second invocation completes.
SecondReaddirDone(d) ==
    /\ IsFindCall(other.object)
    /\ ReadRequest(d) \in other.st.pending
    /\ LET st == FindCallback(other.object,
                              PrivateCounters(other.st, FirstClosure), d)
       IN other' = [other EXCEPT !.st = st,
                                 !.successes = Deliveries(@, st)]
    /\ UNCHANGED <<fs, localMode, object, ret, total, processed, acc, pending,
                   reads, host, successes, errors, hist, localStorage>>

PairInit ==
    /\ fs \in Trees
    /\ localMode = TRUE
    /\ object = NoCall
    /\ ret = Failure("none")
    /\ total = 0
    /\ processed = 0
    /\ acc = <<>>
    /\ pending = {}
    /\ reads = [n \in Nodes |-> 0]
    /\ host = {}
    /\ successes = <<>>
    /\ errors = 0
    /\ hist = {}
    /\ localStorage = EmptyStore
    /\ other = NoOther

PairNext ==
    \/ CallFirstFind
    \/ CallSecondFind
    \/ \E d \in Nodes : FirstReaddirDone(d)
    \/ \E d \in Nodes : SecondReaddirDone(d)

PairSpec == PairInit /\ [][PairNext]_vars

\* What the onSuccess of an invocation run alone receives, from closure st
\* with delivered received so far: one sequence of envelopes for every order
\* in which the host may complete the reads in flight.
RECURSIVE SoloDeliveries(_, _, _)
SoloDeliveries(o, st, delivered) ==
    LET inFlight == {d \in Nodes : ReadRequest(d) \in st.pending}
    IN IF inFlight = {} THEN {delivered}
       ELSE UNION {LET st1 == FindCallback(o, st, d)
                   IN SoloDeliveries(o, st1, Deliveries(delivered, st1))
                   : d \in inFlight}

\* The deliveries of obj run alone on the filesystem.
Alone(obj) == SoloDeliveries(obj, FindCall(obj).st, <<>>)

----------------------------------------------------------------------------
\* The promise wrappers getAllAsync, getFilesAsync, getDirectoriesAsync,
\* findFilesAsync and findDirectoriesAsync.  ret holds the state of the
\* promise the wrapper returned: status "unsettled", the envelope it was
\* resolved with, or status "rejected".

AsyncEntries ==
    {"getAllAsync", "getFilesAsync", "getDirectoriesAsync", "findFilesAsync",
     "findDirectoriesAsync"}

\* The entry point the executor of the promise calls.
InnerEntry(entry) ==
    CASE entry \in {"getAllAsync", "getFilesAsync", "getDirectoriesAsync"} -> "getAll"
      [] entry = "findFilesAsync" -> "findFiles"
      [] entry = "findDirectoriesAsync" -> "findDirectories"

\* Mutant: the wrapper hands the caller's options on as they are.
CallerOptions(o) == o

\* object = {}, then { ...object, sync: false, onSuccess: resolve, onError:
\* reject }: whatever the caller passed, the options are present, asynchronous
\* and carry a callback.
PromiseOptions(o) ==
    [o EXCEPT !.present = TRUE, !.sync = FALSE, !.hasOnSuccess = TRUE]

\* The .then of getFilesAsync / getDirectoriesAsync: the kind filter on an
\* envelope with status OK; the other wrappers hand the envelope on.
Then(entry, env) ==
    IF env.status # "OK" THEN env
    ELSE CASE entry = "getFilesAsync" -> FilesOf(env)
           [] entry = "getDirectoriesAsync" -> DirectoriesOf(env)
           [] OTHER -> env

Unsettled == Failure("unsettled")
Rejected == Failure("rejected")

\* resolve / reject: the first one settles the promise.
SettleWith(promise, outcome) ==
    IF promise.status = "unsettled" THEN outcome ELSE promise

\* The executor: the inner call, then resolve(result) unless it waits.
Executor(entry, inner) ==
    LET r == CASE inner.entry = "getAll" ->
                     LET g == GetAll(Root, inner, FreshWorld)
                     IN [env |-> g.env, st |-> NoClosure(g.w)]
                [] inner.entry = "findFiles" -> FindFiles(inner, FreshWorld)
                [] inner.entry = "findDirectories" -> FindDirectories(inner, FreshWorld)
    IN [promise |-> IF r.env.status # "WAIT_FOR_ASYNC_OPERATION"
                    THEN SettleWith(Unsettled, Then(entry, r.env))
                    ELSE Unsettled,
        st |-> r.st]

CallAsync(entry) ==
    /\ Idle /\ object = NoCall
    /\ \E o \in GetOptions : \E limit \in LimitsFor(o) :
          LET obj == Object(entry, PromiseOptions(o), limit)
              r == Executor(entry, [obj EXCEPT !.entry = InnerEntry(entry)])
          IN Returns(obj, r.promise, r.st)
    /\ UNCHANGED <<fs, localMode>>

CallGetAllAsync == CallAsync("getAllAsync")
CallGetFilesAsync == CallAsync("getFilesAsync")
CallGetDirectoriesAsync == CallAsync("getDirectoriesAsync")
CallFindFilesAsync == CallAsync("findFilesAsync")
CallFindDirectoriesAsync == CallAsync("findDirectoriesAsync")

\* fs.readdir calls back without error: the callback of the inner call runs,
\* and its onSuccess is the resolve of the promise.
PromiseReaddirDone(d) ==
    /\ object.entry \in AsyncEntries
    /\ ReadRequest(d) \in pending
    /\ Exists(d)
    /\ LET inner == [object EXCEPT !.entry = InnerEntry(object.entry)]
       IN IF inner.entry = "getAll"
          THEN LET names == Readdir(d)
                   env == GetAllProcessData(names, inner.template)
               IN /\ Install(Touch(Current(ReadRequest(d)),
                                   StatsOf(names, inner.template)))
                  /\ successes' = Append(successes, env)
                  /\ ret' = SettleWith(ret, Then(object.entry, env))
          ELSE LET st == FindCallback(inner, FirstClosure, d)
               IN /\ Install(st)
                  /\ successes' = Deliveries(successes, st)
                  /\ ret' = IF Complete(st.total, st.processed)
                            THEN SettleWith(ret, Envelope(Some(st.acc), "OK"))
                            ELSE ret
    /\ UNCHANGED <<fs, localMode, object, errors>>

\* fs.readdir calls back with an error: __processError hands it to onError,
\* the reject of the promise.
PromiseReaddirError(d) ==
    /\ object.entry \in AsyncEntries
    /\ ReadRequest(d) \in pending
    /\ pending' = pending \ {ReadRequest(d)}
    /\ errors' = ProcessError(errors)
    /\ ret' = SettleWith(ret, Rejected)
    /\ UNCHANGED <<fs, localMode, object, total, processed, acc, reads, host,
                   successes, hist, localStorage, other>>

PromiseNext ==
    \/ CallGetAllAsync
    \/ CallGetFilesAsync
    \/ CallGetDirectoriesAsync
    \/ CallFindFilesAsync
    \/ CallFindDirectoriesAsync
    \/ \E d \in Nodes : PromiseReaddirDone(d)
    \/ \E d \in Nodes : PromiseReaddirError(d)

PromiseSpec == Init /\ [][PromiseNext]_vars

----------------------------------------------------------------------------
\* Typed discovery: getAudioFiles, getImageFiles, getVideoFiles, getJsonFiles,
\* getTxtFiles, each getFiles with a RegExp template baked in.

TypedEntries ==
    {"getAudioFiles", "getImageFiles", "getVideoFiles", "getJsonFiles",
     "getTxtFiles"}

Unanchored(alts) == [kind |-> "regexp", alts |-> alts, anchorEnd |-> FALSE]

\* /(.ogg|.rpgmvo)/, /(.png|.rpgmvp)/, /(.webm)/, /(.json)/, /(.txt)/: the
\* dot is unescaped and the pattern is searched anywhere in the name.
TypedTemplate(entry) ==
    CASE entry = "getAudioFiles" ->
             Unanchored({<<"ANY", "o", "g", "g">>,
                         <<"ANY", "r", "p", "g", "m", "v", "o">>})
      [] entry = "getImageFiles" ->
             Unanchored({<<"ANY", "p", "n", "g">>,
                         <<"ANY", "r", "p", "g", "m", "v", "p">>})
      [] entry = "getVideoFiles" -> Unanchored({<<"ANY", "w", "e", "b", "m">>})
      [] entry = "getJsonFiles" -> Unanchored({<<"ANY", "j", "s", "o", "n">>})
      [] entry = "getTxtFiles" -> Unanchored({<<"ANY", "t", "x", "t">>})

\* { ...object, template: /.../ }: the options are present, the caller's
\* template is replaced.
TypedOptions(entry, o) ==
    [o EXCEPT !.present = TRUE, !.template = TypedTemplate(entry)]

GetTypedFiles(entry, d, o, w) == GetFiles(d, TypedOptions(entry, o), w)

CallTyped(entry) ==
    /\ Idle /\ object = NoCall
    /\ \E o \in GetOptions :
          LET r == GetTypedFiles(entry, Root, o, FreshWorld)
          IN Returns(Object(entry, TypedOptions(entry, o), 0), r.env,
                     NoClosure(r.w))
    /\ UNCHANGED <<fs, localMode>>

CallGetAudioFiles == CallTyped("getAudioFiles")
CallGetImageFiles == CallTyped("getImageFiles")
CallGetVideoFiles == CallTyped("getVideoFiles")
CallGetJsonFiles == CallTyped("getJsonFiles")
CallGetTxtFiles == CallTyped("getTxtFiles")

\* fs.readdir calls back without error: getAll's callback builds the envelope,
\* the onSuccess getFiles installed filters it and hands it to the caller's.
TypedReaddirDone ==
    /\ object.entry \in TypedEntries
    /\ ReadRequest(Root) \in pending
    /\ Exists(Root)
    /\ LET names == Readdir(Root)
           env == GetAllProcessData(names, object.template)
       IN /\ Install(Touch(Current(ReadRequest(Root)),
                           StatsOf(names, object.template)))
          /\ successes' = Append(successes, FilesOf(env))
    /\ UNCHANGED <<fs, localMode, object, ret, errors>>

TypedNext ==
    \/ CallGetAudioFiles
    \/ CallGetImageFiles
    \/ CallGetVideoFiles
    \/ CallGetJsonFiles
    \/ CallGetTxtFiles
    \/ TypedReaddirDone
    \/ ReaddirError(Root)

TypedSpec == Init /\ [][TypedNext]_vars

\* The extension of a name: from its last dot on.
ExtensionOf(name) ==
    LET cs == NameChars(name)
        dots == {i \in 1..Len(cs) : cs[i] = "."}
    IN IF dots = {} THEN <<>>
       ELSE SubSeq(cs, CHOOSE i \in dots : \A j \in dots : j <= i, Len(cs))

\* The extensions of a category, the primary and the alternate one.
CategoryExtensions(entry) ==
    CASE entry = "getAudioFiles" ->
             {<<".", "o", "g", "g">>, <<".", "r", "p", "g", "m", "v", "o">>}
      [] entry = "getImageFiles" ->
             {<<".", "p", "n", "g">>, <<".", "r", "p", "g", "m", "v", "p">>}
      [] entry = "getVideoFiles" -> {<<".", "w", "e", "b", "m">>}
      [] entry = "getJsonFiles" -> {<<".", "j", "s", "o", "n">>}
      [] entry = "getTxtFiles" -> {<<".", "t", "x", "t">>}

----------------------------------------------------------------------------
\* The web storage on its own: save, load, remove and rename in any order.

\* The state a storage call leaves when it returns code and leaves store.
StorageReturns(obj, code, store) ==
    /\ object' = obj
    /\ ret' = Failure(code)
    /\ localStorage' = store
    /\ UNCHANGED <<fs, localMode, total, processed, acc, pending, reads, host,
                   successes, errors, hist, other>>

WebStorageSave ==
    /\ Idle
    /\ \E key \in Keys, data \in SaveData, o \in SaveOptions :
          /\ (o.compress /\ ~o.stringify) => data # Value("v")
          /\ \E cz \in CompressOutcomes(Stringified(data, o)) :
                LET r == StorageSave(localStorage, key, data, o, cz)
                IN StorageReturns(
                       [entry |-> "WebStorage.save", key |-> key, data |-> data,
                        present |-> o.present, hasOverwrite |-> o.hasOverwrite,
                        overwrite |-> o.overwrite, stringify |-> o.stringify,
                        compress |-> o.compress],
                       r.code, r.store)

WebStorageRemove ==
    /\ Idle
    /\ \E key \in Keys :
          LET r == StorageRemove(localStorage, key)
          IN StorageReturns([entry |-> "WebStorage.remove", key |-> key],
                            r.code, r.store)

WebStorageRename ==
    /\ Idle
    /\ \E oldKey \in Keys, newKey \in Keys, overwrite \in BOOLEAN :
          LET r == StorageRename(localStorage, oldKey, newKey, overwrite)
          IN StorageReturns([entry |-> "WebStorage.rename", oldKey |-> oldKey,
                             newKey |-> newKey, overwrite |-> overwrite],
                            r.code, r.store)

StorageInit ==
    /\ fs = [n \in Nodes |-> Absent]
    /\ localMode = FALSE
    /\ localStorage \in Stores
    /\ object = NoCall
    /\ ret = Failure("none")
    /\ total = 0
    /\ processed = 0
    /\ acc = <<>>
    /\ pending = {}
    /\ reads = [n \in Nodes |-> 0]
    /\ host = {}
    /\ successes = <<>>
    /\ errors = 0
    /\ hist = {}
    /\ other = NoOther

StorageNext ==
    \/ WebStorageSave
    \/ WebStorageLoad
    \/ WebStorageRemove
    \/ WebStorageRename

StorageSpec == StorageInit /\ [][StorageNext]_vars

----------------------------------------------------------------------------
\* The asynchronous search with a budget that outlasts the root's callback:
\* with two directories in flight, either may spend what is left of it.

DeepLimit == MaxSearchLimit + 1

CallDeepFind ==
    /\ Idle /\ object = NoCall
    /\ \E entry \in {"findFiles", "findDirectories"},
          limit \in {MaxSearchLimit, DeepLimit} :
          LET obj == [entry |-> entry, present |-> TRUE, sync |-> FALSE,
                      hasOnSuccess |-> TRUE, template |-> NoTemplate,
                      searchLimit |-> limit]
              r == FindCall(obj)
          IN Returns(obj, r.env, r.st)
    /\ UNCHANGED <<fs, localMode>>

OrderNext ==
    \/ CallDeepFind
    \/ \E d \in Nodes : ReaddirDone(d)

OrderSpec == PairInit /\ [][OrderNext]_vars

----------------------------------------------------------------------------
\* The synchronous search on a directory graph with a cycle: one directory of
\* the tree is a link to one of its ancestors.

\* The ancestors of entity e in tree t.
RECURSIVE AncestorsIn(_, _)
AncestorsIn(t, e) ==
    IF e = Root THEN {}
    ELSE {t[e].parent} \cup AncestorsIn(t, t[e].parent)

\* Tree t with its directory e, which has no entries, made a link to a.
WithLink(t, e, a) ==
    [n \in Nodes |-> IF n = e
                     THEN [kind |-> "link", parent |-> t[e].parent, target |-> a]
                     ELSE t[n]]

\* The directories of tree t that have no entries.
EmptyDirectoriesIn(t) ==
    {x \in Entities :
        /\ t[x].kind = "dir"
        /\ \A c \in Entities : t[c].kind # "none" => t[c].parent # x}

CyclicTrees ==
    UNION {UNION {{WithLink(t, e, a) : a \in AncestorsIn(t, e)} :
                     e \in EmptyDirectoriesIn(t)} :
              t \in Trees}

CycleInit ==
    /\ fs \in CyclicTrees
    /\ localMode = TRUE
    /\ object = NoCall
    /\ ret = Failure("none")
    /\ total = 0
    /\ processed = 0
    /\ acc = <<>>
    /\ pending = {}
    /\ reads = [n \in Nodes |-> 0]
    /\ host = {}
    /\ successes = <<>>
    /\ errors = 0
    /\ hist = {}
    /\ localStorage = EmptyStore
    /\ other = NoOther

\* The options of a synchronous search.
SyncFindObjects ==
    {[entry |-> entry, present |-> TRUE, sync |-> TRUE, hasOnSuccess |-> FALSE,
      template |-> template, searchLimit |-> limit] :
        entry \in {"findFiles", "findDirectories"},
        template \in {NoTemplate, TxtRegExp}, limit \in SearchLimits}

\* findFiles / findDirectories called with sync: true.
CallSyncFind ==
    /\ Idle /\ object = NoCall
    /\ \E obj \in SyncFindObjects :
          LET r == FindCall(obj)
          IN Returns(obj, r.env, r.st)
    /\ UNCHANGED <<fs, localMode>>

CycleSpec == CycleInit /\ [][CallSyncFind]_vars

----------------------------------------------------------------------------
\* The synchronous search while another process removes a directory with all
\* it holds, after the search has seen it and before the search enumerates it.

\* The entities below directory e.
RECURSIVE Below(_)
Below(e) ==
    LET cs == Children(e)
    IN cs \cup UNION {Below(c) : c \in cs}

CallSyncFindRacing ==
    /\ Idle /\ object = NoCall
    /\ \E obj \in SyncFindObjects, e \in Entities :
          /\ fs[e].kind = "dir"
          /\ LET start == [FreshWorld EXCEPT !.gone = {e}]
                 r == IF obj.entry = "findFiles" THEN FindFiles(obj, start)
                      ELSE FindDirectories(obj, start)
             IN /\ Returns([entry |-> obj.entry, present |-> TRUE, sync |-> TRUE,
                            hasOnSuccess |-> FALSE, template |-> obj.template,
                            searchLimit |-> obj.searchLimit, gone |-> e],
                           r.env, r.st)
                /\ fs' = [n \in Nodes |->
                             IF n \in {e} \cup Below(e) THEN Absent ELSE fs[n]]
    /\ UNCHANGED localMode

GoneNext ==
    \/ CallSyncFind
    \/ CallSyncFindRacing

GoneSpec == PairInit /\ [][GoneNext]_vars

----------------------------------------------------------------------------
\* One options object passed to successive asynchronous getFiles /
\* getDirectories calls.  Here `other` is that object: wrappers is what its
\* onSuccess property holds around the caller's callback (the latest wrapper
\* first), waiting the calls whose directory read is in flight.

MaxReuse == 3

\* The wrapper an asynchronous getFiles / getDirectories stores in
\* object.onSuccess: filter result.data, then call the onSuccess it replaced.
Wrapper(entry, env) ==
    IF entry = "getFiles" THEN FilesOf(env) ELSE DirectoriesOf(env)

\* object.onSuccess(env), as getAll's callback calls it.
RECURSIVE ThroughWrappers(_, _)
ThroughWrappers(wrappers, env) ==
    IF wrappers = <<>> THEN env
    ELSE ThroughWrappers(Tail(wrappers), Wrapper(Head(wrappers), env))

ReusedOptions(template) ==
    [wrappers |-> <<>>, waiting |-> <<>>, template |-> template]

CallReusing ==
    /\ Len(other.wrappers) < MaxReuse
    /\ \E entry \in {"getFiles", "getDirectories"} :
          LET o == [present |-> TRUE, sync |-> FALSE, hasOnSuccess |-> TRUE,
                    template |-> other.template]
              w == World({}, reads, host)
              r == IF entry = "getFiles" THEN GetFiles(Root, o, w)
                   ELSE GetDirectories(Root, o, w)
          IN /\ object' = Object(entry, o, 0)
             /\ ret' = r.env
             /\ reads' = r.w.reads
             /\ host' = r.w.host
             /\ other' = [other EXCEPT
                            !.wrappers = <<entry>> \o @,
                            !.waiting =
                                IF r.env.status = "WAIT_FOR_ASYNC_OPERATION"
                                THEN Append(@, entry) ELSE @]
    /\ UNCHANGED <<fs, localMode, total, processed, acc, pending, successes,
                   errors, hist, localStorage>>

\* fs.readdir of the i-th call in flight calls back without error: getAll's
\* callback hands its envelope to what object.onSuccess holds by now.
ReuseReaddirDone(i) ==
    /\ i \in 1..Len(other.waiting)
    /\ LET names == Readdir(Root)
           env == GetAllProcessData(names, other.template)
       IN /\ successes' =
                Append(successes,
                       [call |-> other.waiting[i],
                        env |-> ThroughWrappers(other.wrappers, env)])
          /\ host' = host \cup StatsOf(names, other.template)
    /\ other' = [other EXCEPT
                   !.waiting = [k \in 1..(Len(@) - 1) |->
                                   IF k < i THEN @[k] ELSE @[k + 1]]]
    /\ UNCHANGED <<fs, localMode, object, ret, total, processed, acc, pending,
                   reads, errors, hist, localStorage>>

ReuseInit ==
    /\ fs \in Trees
    /\ localMode = TRUE
    /\ object = NoCall
    /\ ret = Failure("none")
    /\ total = 0
    /\ processed = 0
    /\ acc = <<>>
    /\ pending = {}
    /\ reads = [n \in Nodes |-> 0]
    /\ host = {}
    /\ successes = <<>>
    /\ errors = 0
    /\ hist = {}
    /\ localStorage = EmptyStore
    /\ \E template \in {NoTemplate, TxtRegExp} : other = ReusedOptions(template)

ReuseNext ==
    \/ CallReusing
    \/ \E i \in 1..MaxReuse : ReuseReaddirDone(i)

ReuseSpec == ReuseInit /\ [][ReuseNext]_vars

----------------------------------------------------------------------------
\* isEmpty() beside create and remove.

\* isEmpty(): ret.status holds the boolean it returns.
CallIsEmpty ==
    /\ Idle
    /\ LET r == IsEmpty(Root, FreshWorld)
       IN Returns([NoCall EXCEPT !.entry = "isEmpty"],
                  Failure(IF r.empty THEN "true" ELSE "false"), NoClosure(r.w))
    /\ UNCHANGED <<fs, localMode>>

EmptyNext ==
    \/ CallIsEmpty
    \/ CallCreate
    \/ CallRemove
    \/ RmdirDone
    \/ RmdirError

EmptySpec == DirInit /\ [][EmptyNext]_vars

----------------------------------------------------------------------------
\* DKTools.Scene.Preloader.  Here `other` is the preloader: _queue, _finished
\* and _errors, beside them the promises ever accepted (resource), those
\* accepted while isReady() was false (early) and the start() calls made, each
\* with the queue it mapped (snapshot), the promises whose catch handler has
\* run (counted) and whether its then callback has run (then).

MaxResources == 2
MaxStarts == 2
Resources == 1..MaxResources

\* What add() may be handed.
ResourceKinds == {"Promise", "Bitmap", "WebAudio", "Object"}

\* add: a Bitmap or a WebAudio is replaced by the promise of its loading;
\* what is not a Promise by then is dropped.
Accepted(kind) == kind \in {"Promise", "Bitmap", "WebAudio"}

NewPreloader ==
    [queue |-> <<>>, finished |-> FALSE, errors |-> 0,
     resource |-> [r \in Resources |-> "none"], early |-> {},
     starts |-> <<>>]

IsPreloader == "queue" \in DOMAIN other

PreloaderRest ==
    UNCHANGED <<fs, localMode, object, ret, total, processed, acc, pending,
                reads, host, successes, errors, hist, localStorage>>

\* The promises add() has accepted so far.
Known == {r \in Resources : other.resource[r] # "none"}

PreloaderAdd ==
    /\ IsPreloader
    /\ Cardinality(Known) < MaxResources
    /\ \E kind \in ResourceKinds, state \in {"pending", "loaded", "failed"} :
          LET r == Cardinality(Known) + 1
          IN other' =
                IF Accepted(kind)
                THEN [other EXCEPT
                        !.queue = Append(@, r),
                        !.resource[r] = state,
                        !.early = IF other.finished THEN @ ELSE @ \cup {r}]
                ELSE other
    /\ PreloaderRest

\* start: the catch handlers are attached to the promises now in the queue,
\* and Promise.all is given the promises these handlers return.
PreloaderStart ==
    /\ IsPreloader
    /\ Len(other.starts) < MaxStarts
    /\ other' = [other EXCEPT
                   !.starts = Append(@, [snapshot |-> Range(other.queue),
                                         counted |-> {}, then |-> FALSE])]
    /\ PreloaderRest

\* The host settles a promise.
LoadSucceeds(r) ==
    /\ IsPreloader
    /\ other.resource[r] = "pending"
    /\ other' = [other EXCEPT !.resource[r] = "loaded"]
    /\ PreloaderRest

LoadFails(r) ==
    /\ IsPreloader
    /\ other.resource[r] = "pending"
    /\ other' = [other EXCEPT !.resource[r] = "failed"]
    /\ PreloaderRest

\* The catch handler start k attached to promise r runs: _onError, then the
\* rejection is thrown on.
PreloaderOnError(k, r) ==
    /\ IsPreloader
    /\ k \in 1..Len(other.starts)
    /\ r \in other.starts[k].snapshot \ other.starts[k].counted
    /\ other.resource[r] = "failed"
    /\ other' = [other EXCEPT
                   !.errors = @ + 1,
                   !.starts[k].counted = @ \cup {r}]
    /\ PreloaderRest

\* Mutant: the then callback runs once every promise is settled.
AllSettled(snapshot) ==
    \A r \in snapshot : other.resource[r] \in {"loaded", "failed"}

\* Promise.all(promises) is fulfilled: every promise of the snapshot is.
AllFulfilled(snapshot) ==
    \A r \in snapshot : other.resource[r] = "loaded"

\* The then callback of start k runs: finish().
PreloaderFinish(k) ==
    /\ IsPreloader
    /\ k \in 1..Len(other.starts)
    /\ ~other.starts[k].then
    /\ AllFulfilled(other.starts[k].snapshot)
    /\ other' = [other EXCEPT
                   !.queue = <<>>,
                   !.finished = TRUE,
                   !.starts[k].then = TRUE]
    /\ PreloaderRest

PreloaderInit ==
    /\ fs \in {t \in Trees : \A e \in Entities : t[e] = Absent}
    /\ localMode = TRUE
    /\ object = NoCall
    /\ ret = Failure("none")
    /\ total = 0
    /\ processed = 0
    /\ acc = <<>>
    /\ pending = {}
    /\ reads = [n \in Nodes |-> 0]
    /\ host = {}
    /\ successes = <<>>
    /\ errors = 0
    /\ hist = {}
    /\ localStorage = EmptyStore
    /\ other = NewPreloader

\* The callbacks the host's job queue holds.
PreloaderJobs ==
    \/ \E k \in 1..MaxStarts, r \in Resources : PreloaderOnError(k, r)
    \/ \E k \in 1..MaxStarts : PreloaderFinish(k)

PreloaderNext ==
    \/ PreloaderAdd
    \/ PreloaderStart
    \/ \E r \in Resources : LoadSucceeds(r)
    \/ \E r \in Resources : LoadFails(r)
    \/ PreloaderJobs

\* A callback in the job queue is run.
PreloaderSpec ==
    PreloaderInit /\ [][PreloaderNext]_vars /\ WF_vars(PreloaderJobs)

----------------------------------------------------------------------------
\* DKTools.Sprite.Arrow.  Here `other` is the arrow: _arrowType, and in last
\* the call made last, with the type stored before it, what it returned and
\* the methods it called.

\* JavaScript values a caller passes as a type: the four arrow names, another
\* string, and the falsy values undefined, null and ''.
Undefined == [js |-> "undefined"]
NullType == [js |-> "null"]
Str(text) == [js |-> "string", text |-> text]
ArrowTypes ==
    {Undefined, NullType} \cup
    {Str(text) : text \in {"", "up", "down", "left", "right", "none"}}

Truthy(type) == type \notin {Undefined, NullType, Str("")}

\* standardArrowType
StandardArrowType == NullType

\* setupArrowType: this._arrowType = type || this.standardArrowType()
SetupArrowType(type) == IF Truthy(type) THEN type ELSE StandardArrowType

\* Mutant: the type set up is not compared with the last one.
SetArrowTypeUnchecked(arrowType, type, blockRefreshAll) ==
    IF arrowType = type THEN
        [arrowType |-> arrowType, result |-> FALSE, refreshAll |-> FALSE]
    ELSE [arrowType |-> SetupArrowType(type), result |-> TRUE,
          refreshAll |-> ~blockRefreshAll]

\* setArrowType on an arrow of type arrowType: the type it leaves, what it
\* returns, whether it calls refreshAll.
SetArrowType(arrowType, type, blockRefreshAll) ==
    IF arrowType = type THEN
        [arrowType |-> arrowType, result |-> FALSE, refreshAll |-> FALSE]
    ELSE LET lastType == arrowType
             now == SetupArrowType(type)
         IN IF now = lastType THEN
                [arrowType |-> now, result |-> FALSE, refreshAll |-> FALSE]
            ELSE [arrowType |-> now, result |-> TRUE,
                  refreshAll |-> ~blockRefreshAll]

\* The number of parameters DKTools.Sprite.Button.prototype.setAll may report
\* as changed.
MaxButtonChanges == 2

\* setAll, the Button's setAll having changed `changed` parameters.
SetAll(arrowType, type, changed, blockStart, activate) ==
    LET r == SetArrowType(arrowType, type, TRUE)
        count == IF r.result THEN changed + 1 ELSE changed
    IN [arrowType |-> r.arrowType, result |-> count,
        refreshAll |-> r.refreshAll,
        start |-> count > 0 /\ ~blockStart,
        activate |-> count > 0 /\ activate]

NewArrow(type) ==
    [arrowType |-> SetupArrowType(type),
     last |-> [method |-> "setupAll", type |-> type]]

IsArrow == "arrowType" \in DOMAIN other

ArrowSetArrowType ==
    /\ IsArrow
    /\ \E type \in ArrowTypes, blockRefreshAll \in BOOLEAN :
          LET r == SetArrowType(other.arrowType, type, blockRefreshAll)
          IN other' = [arrowType |-> r.arrowType,
                       last |-> [method |-> "setArrowType", type |-> type,
                                 blockRefreshAll |-> blockRefreshAll,
                                 before |-> other.arrowType,
                                 result |-> r.result,
                                 refreshAll |-> r.refreshAll]]
    /\ PreloaderRest

ArrowSetAll ==
    /\ IsArrow
    /\ \E type \in ArrowTypes, changed \in 0..MaxButtonChanges,
          blockStart \in BOOLEAN, activate \in BOOLEAN :
          LET r == SetAll(other.arrowType, type, changed, blockStart, activate)
          IN other' = [arrowType |-> r.arrowType,
                       last |-> [method |-> "setAll", type |-> type,
                                 changed |-> changed,
                                 blockStart |-> blockStart,
                                 activate |-> activate,
                                 before |-> other.arrowType,
                                 result |-> r.result,
                                 refreshAll |-> r.refreshAll,
                                 started |-> r.start,
                                 activated |-> r.activate]]
    /\ PreloaderRest

ArrowInit ==
    /\ fs \in {t \in Trees : \A e \in Entities : t[e] = Absent}
    /\ localMode = TRUE
    /\ object = NoCall
    /\ ret = Failure("none")
    /\ total = 0
    /\ processed = 0
    /\ acc = <<>>
    /\ pending = {}
    /\ reads = [n \in Nodes |-> 0]
    /\ host = {}
    /\ successes = <<>>
    /\ errors = 0
    /\ hist = {}
    /\ localStorage = EmptyStore
    /\ \E type \in ArrowTypes : other = NewArrow(type)

ArrowNext ==
    \/ ArrowSetArrowType
    \/ ArrowSetAll

ArrowSpec == ArrowInit /\ [][ArrowNext]_vars

----------------------------------------------------------------------------
\* Properties

RECURSIVE SumOver(_, _)
SumOver(f, S) ==
    IF S = {} THEN 0
    ELSE LET x == CHOOSE y \in S : TRUE IN f[x] + SumOver(f, S \ {x})

\* The number of directory reads the call has issued.
ReadsIssued == SumOver(reads, Nodes)

IsFind == object.entry \in {"findFiles", "findDirectories"}
AsyncFindStarted ==
    IsFind /\ ~object.sync /\ ret.status = "WAIT_FOR_ASYNC_OPERATION"

\* The search has handed its result to the caller: returned it (synchronous)
\* or passed it to onSuccess (asynchronous).
FindDone ==
    /\ IsFind
    /\ \/ object.sync /\ ret.status = "OK"
       \/ ~object.sync /\ Len(successes) > 0
FindResult == IF object.sync THEN ret ELSE successes[1]
ResultSet == Range(Items(FindResult.data))

\* What it is for a name to satisfy a template: a pattern matches it, a string
\* equals it, and anything else filters nothing.
Satisfies(template, name) ==
    CASE template.kind = "regexp" -> RegExpTest(template, name)
      [] template.kind = "string" -> name = template.value
      [] OTHER -> TRUE

\* The template is of a documented kind: absent, a RegExp or a string.
DocumentedTemplate == object.template.kind \in {"none", "regexp", "string"}

\* The kind of entity the search collects.
Wanted(e) == IF object.entry = "findFiles" THEN IsFile(e) ELSE IsDirectory(e)

\* C1: in an asynchronous findFiles / findDirectories, once onSuccess has been
\* invoked no directory read of the search is in flight, and every directory
\* read the search issued (the root's included) has had its callback processed.
C1_SuccessAfterAllBranches ==
    (IsFind /\ ~object.sync /\ Len(successes) > 0) =>
        /\ pending = {}
        /\ errors = 0
        /\ processed = total
        /\ processed = ReadsIssued
        /\ \A d \in Nodes : reads[d] <= 1

C1_Witness ==
    /\ IsFind /\ ~object.sync /\ Len(successes) > 0
    /\ total = 3
    /\ \E d \in Entities, e \in Entities :
          d # e /\ fs[d].parent = Root /\ fs[e].parent = Root
          /\ reads[d] = 1 /\ reads[e] = 1

\* C2: on an unchanging filesystem whose host reports no error, an asynchronous
\* findFiles / findDirectories that returned the pending status eventually
\* invokes onSuccess with status OK and the accumulator, and onSuccess is never
\* invoked a second time, in every order of completion of the directory reads.
C2_SuccessExactlyOnce ==
    /\ AsyncFindStarted ~>
          (/\ Len(successes) = 1
           /\ successes[1] = Envelope(Some(acc), "OK")
           /\ pending = {})
    /\ [](IsFind => Len(successes) <= 1)

C2_Witness ==
    /\ AsyncFindStarted
    /\ Len(successes) = 1
    /\ successes[1] = Envelope(Some(acc), "OK")
    /\ processed = 3
    /\ Len(acc) >= 2

\* C3: with a positive integer searchLimit, every value the counters of a
\* findFiles / findDirectories call go through satisfies
\* processed <= total <= searchLimit.
C3_CounterOrder ==
    (IsFind /\ object.searchLimit >= 1) =>
        /\ processed <= total /\ total <= object.searchLimit
        /\ \A c \in hist : c[1] <= c[2] /\ c[2] <= object.searchLimit

C3_Witness ==
    /\ IsFind /\ ~object.sync /\ object.searchLimit = 3
    /\ <<1, 3>> \in hist /\ <<2, 3>> \in hist
    /\ \E d \in Entities : IsDirectory(d) /\ reads[d] = 0

\* C4: findFiles / findDirectories with searchLimit = N >= 1 issue at most N
\* directory reads, the root's included, synchronously and asynchronously.
C4_AtMostLimitReads ==
    (IsFind /\ object.searchLimit >= 1) => ReadsIssued <= object.searchLimit

C4_Witness ==
    /\ FindDone /\ object.searchLimit = 2 /\ ReadsIssued = 2
    /\ Cardinality({d \in Entities : IsDirectory(d) /\ fs[d].parent = Root}) >= 2

\* C5: with searchLimit 1 or omitted and a template of a documented kind,
\* findFiles delivers exactly the root's child files that satisfy the template,
\* findDirectories exactly the root's child directories that satisfy it, each
\* once, and no directory below the root is ever read.
C5_LimitOneStaysAtRoot ==
    (IsFind /\ object.searchLimit <= 1) =>
        /\ \A e \in Entities : reads[e] = 0
        /\ (FindDone /\ DocumentedTemplate) =>
              /\ FindResult.status = "OK"
              /\ ResultSet = {e \in Children(Root) :
                                 Wanted(e) /\ Satisfies(object.template, FullName(e))}
              /\ Len(Items(FindResult.data)) = Cardinality(ResultSet)

C5_Witness ==
    /\ FindDone /\ object.searchLimit = 0 /\ object.template.kind = "regexp"
    /\ ResultSet # {}
    /\ \E d \in Children(Root), e \in Entities :
          /\ IsDirectory(d) /\ fs[e].parent = d /\ Wanted(e)
          /\ Satisfies(object.template, FullName(e))

\* The filesystem of the scenario: the root holds sub/ (1), a.txt (2) and
\* b.png (3); sub/ holds c.txt (4).
ScenarioTree ==
    [n \in Nodes |->
        CASE n = 0 -> [kind |-> "dir", parent |-> Root]
          [] n = 1 -> [kind |-> "dir", parent |-> Root]
          [] n = 2 -> [kind |-> "file", parent |-> Root]
          [] n = 3 -> [kind |-> "file", parent |-> Root]
          [] n = 4 -> [kind |-> "file", parent |-> 1]
          [] OTHER -> Absent]

\* C6: with a template of a documented kind, findFiles delivers exactly the
\* files whose parent directory the search has read and whose full name
\* satisfies the template, and no directory; on the scenario's filesystem with
\* template /\.txt$/ and searchLimit 2 it delivers status OK with exactly
\* a.txt and c.txt.
C6_FilesOfAdmittedDirectories ==
    (FindDone /\ object.entry = "findFiles" /\ DocumentedTemplate) =>
        /\ FindResult.status = "OK"
        /\ ResultSet = {e \in Entities :
                           /\ IsFile(e)
                           /\ reads[fs[e].parent] > 0
                           /\ Satisfies(object.template, FullName(e))}
        /\ (fs = ScenarioTree /\ object.template = TxtRegExp
                /\ object.searchLimit = 2) => ResultSet = {2, 4}

C6_Witness ==
    /\ FindDone /\ object.entry = "findFiles"
    /\ fs = ScenarioTree /\ object.template = TxtRegExp /\ object.searchLimit = 2
    /\ FullName(2) = "a.txt" /\ FullName(3) = "b.png" /\ FullName(4) = "c.txt"
    /\ FullName(1) = "sub"
    /\ ResultSet = {2, 4}

\* What the synchronous call with the same template and searchLimit returns
\* on this filesystem.
SyncResult ==
    LET o == [object EXCEPT !.sync = TRUE, !.hasOnSuccess = FALSE]
    IN IF object.entry = "findFiles" THEN FindFiles(o, FreshWorld).env
       ELSE FindDirectories(o, FreshWorld).env

\* C7: the asynchronous findFiles / findDirectories delivers to onSuccess the
\* set of entities the synchronous call returns for the same directory tree,
\* template and searchLimit.
C7_SyncAsyncAgree ==
    (FindDone /\ ~object.sync) =>
        ResultSet = Range(Items(SyncResult.data))

\* The status the precondition order options -> local mode -> (asynchronous)
\* callback -> path gives a call, "passes" when every precondition holds.
ContractStatus ==
    IF ~object.present THEN "ERROR_OPTIONS_IS_NOT_AVAILABLE"
    ELSE IF ~localMode THEN "ERROR_NOT_LOCAL_MODE"
    ELSE IF ~object.sync /\ ~object.hasOnSuccess
    THEN "ERROR_CALLBACK_IS_NOT_AVAILABLE"
    ELSE IF ~Exists(Root) THEN "ERROR_PATH_DOES_NOT_EXIST"
    ELSE "passes"

Enumerations ==
    {"getAll", "getFiles", "getDirectories", "findFiles", "findDirectories"}

\* C8: getAll, getFiles, getDirectories, findFiles and findDirectories report
\* the first precondition that fails in the order options -> local mode ->
\* (asynchronous) callback -> path; a call with no options object returns
\* ERROR_OPTIONS_IS_NOT_AVAILABLE.
C8_PreconditionOrder ==
    (object.entry \in Enumerations /\ ContractStatus # "passes") =>
        ret.status = ContractStatus

\* C9: an asynchronous getAll in local mode without a success callback returns
\* ERROR_CALLBACK_IS_NOT_AVAILABLE, on an existing and on a missing path,
\* makes no host filesystem call and invokes no callback.
C9_MissingCallbackNoHostCall ==
    (/\ object.entry = "getAll" /\ object.present /\ localMode
     /\ ~object.sync /\ ~object.hasOnSuccess) =>
        /\ ret = Failure("ERROR_CALLBACK_IS_NOT_AVAILABLE")
        /\ host = {}
        /\ pending = {}
        /\ successes = <<>> /\ errors = 0

\* C10: with the trust gate denying, getAll, findFiles, findDirectories (called
\* with an options object), create and remove return ERROR_NOT_LOCAL_MODE with
\* data null, make no host filesystem call and leave nothing in flight.
C10_GateDeniesBeforeHost ==
    (/\ ~localMode
     /\ \/ object.entry \in {"getAll", "findFiles", "findDirectories"}
           /\ object.present
        \/ object.entry \in {"create", "remove"}) =>
        /\ ret = Failure("ERROR_NOT_LOCAL_MODE")
        /\ host = {}
        /\ ReadsIssued = 0
        /\ pending = {}
        /\ successes = <<>> /\ errors = 0

C10_Witness ==
    /\ ~localMode
    /\ object.entry = "findFiles" /\ object.present /\ object.hasOnSuccess
    /\ Children(Root) # {}
    /\ ret = Failure("ERROR_NOT_LOCAL_MODE")

----------------------------------------------------------------------------
\* Properties of create / remove and of the enumeration entry points

\* A step of the caller: the call of the entry point named.
Calls(entry) == Idle /\ object'.entry = entry

\* The entries of a directory, of every kind.
Entries(d) == {e \in Entities : fs[e].kind # "none" /\ fs[e].parent = d}

\* C11: createAsync resolves its promise with the code create would return in
\* the same state, issues the host mkdir exactly when create would, and has
\* issued no host mkdir whenever it resolves ERROR_NOT_LOCAL_MODE or
\* ERROR_DIRECTORY_ALREADY_EXISTS.
C11_CreateAsyncAsCreate ==
    [][Calls("createAsync") =>
          LET c == Create(Root, FreshWorld)
          IN /\ c.code # "OK" => ret'.status = c.code
             /\ c.code = "OK" => ret'.status = "unsettled"
             /\ ("mkdir" \in host') <=> c.mkdir
             /\ ret'.status \in {"ERROR_NOT_LOCAL_MODE",
                                 "ERROR_DIRECTORY_ALREADY_EXISTS"}
                   => "mkdir" \notin host' /\ pending' = {}]_vars

\* C12: in local mode, on a path that does not exist, getAll, findFiles and
\* findDirectories (called with options and, when asynchronous, a callback) and
\* remove return ERROR_PATH_DOES_NOT_EXIST with data null, issue no host read
\* and no host mutation, leave nothing in flight and invoke no callback.
C12_MissingPathRefused ==
    /\ [][(/\ localMode /\ ~Exists(Root)
           /\ \/ Calls("remove")
              \/ /\ \/ Calls("getAll")
                    \/ Calls("findFiles")
                    \/ Calls("findDirectories")
                 /\ object'.present
                 /\ object'.sync \/ object'.hasOnSuccess) =>
              /\ ret' = Failure("ERROR_PATH_DOES_NOT_EXIST")
              /\ host' \subseteq {"exists"}
              /\ \A n \in Nodes : reads'[n] = 0
              /\ pending' = {}
              /\ fs' = fs
              /\ successes' = <<>> /\ errors' = 0]_vars
    /\ [](ret.status = "ERROR_PATH_DOES_NOT_EXIST" =>
              pending = {} /\ successes = <<>> /\ errors = 0)

C12_Witness ==
    /\ localMode /\ ~Exists(Root)
    /\ object.entry = "remove" /\ ~object.sync /\ object.hasOnSuccess
    /\ ret = Failure("ERROR_PATH_DOES_NOT_EXIST")
    /\ host = {"exists"}

\* C13: remove, synchronous or asynchronous, on an existing directory that has
\* at least one entry returns ERROR_DIRECTORY_IS_NOT_EMPTY, issues no host
\* rmdir and leaves the directory and its contents unchanged.
C13_NonEmptyNotRemoved ==
    [][(/\ Calls("remove")
        /\ localMode /\ Exists(Root) /\ Entries(Root) # {}) =>
          /\ ret' = Failure("ERROR_DIRECTORY_IS_NOT_EMPTY")
          /\ "rmdir" \notin host'
          /\ pending' = {}
          /\ fs' = fs]_vars

\* The call has handed an OK envelope to the caller: returned it (synchronous)
\* or passed it to onSuccess (asynchronous).
Delivered ==
    \/ object.sync /\ ret.status = "OK"
    \/ ~object.sync /\ Len(successes) > 0
DeliveredEnvelope == IF object.sync THEN ret ELSE successes[1]
DeliveredSet == Range(Items(DeliveredEnvelope.data))

\* What getAll, getFiles and getDirectories hand over for the options of the
\* call on this filesystem.
SameOptions ==
    [present |-> TRUE, sync |-> TRUE, hasOnSuccess |-> FALSE,
     template |-> object.template]
AllPart == Items(GetAll(Root, SameOptions, FreshWorld).env.data)
FilesPart == Items(GetFiles(Root, SameOptions, FreshWorld).env.data)
DirectoriesPart == Items(GetDirectories(Root, SameOptions, FreshWorld).env.data)

\* C14: on an unchanging directory, for the same options, the entities getFiles
\* hands over and the entities getDirectories hands over are disjoint, their
\* union is what getAll hands over, and no entity is handed over twice: every
\* entity of getAll is in exactly one of the two results.
C14_FilesAndDirectoriesPartition ==
    (object.entry \in {"getAll", "getFiles", "getDirectories"} /\ Delivered) =>
        /\ object.entry = "getAll" => Items(DeliveredEnvelope.data) = AllPart
        /\ object.entry = "getFiles" => Items(DeliveredEnvelope.data) = FilesPart
        /\ object.entry = "getDirectories" =>
              Items(DeliveredEnvelope.data) = DirectoriesPart
        /\ Range(FilesPart) \cup Range(DirectoriesPart) = Range(AllPart)
        /\ Range(FilesPart) \cap Range(DirectoriesPart) = {}
        /\ Len(FilesPart) + Len(DirectoriesPart) = Len(AllPart)
        /\ Len(AllPart) = Cardinality(Range(AllPart))

C14_Witness ==
    /\ object.entry = "getFiles" /\ ~object.sync /\ Len(successes) = 1
    /\ object.template = NoTemplate
    /\ Len(FilesPart) = 1 /\ Len(DirectoriesPart) = 2
    /\ \E e \in Entries(Root) : fs[e].kind = "other"

\* A result envelope carries data only with status OK.
DataOnlyWithOk(env) == ~IsNull(env.data) => env.status = "OK"

\* C15: every envelope returned by, or handed to a callback by, getAll,
\* getFiles, getDirectories, findFiles, findDirectories and WebStorage.load
\* has data null unless its status is OK.
C15_DataOnlyWithOk ==
    (object.entry \in Enumerations \cup {"WebStorage.load"}) =>
        /\ DataOnlyWithOk(ret)
        /\ \A i \in 1..Len(successes) : DataOnlyWithOk(successes[i])

C15_Witness ==
    /\ object.entry = "WebStorage.load" /\ object.decompress /\ object.parse
    /\ localStorage[object.key] = Compressed(Plain("abc"))
    /\ ret = Failure("ERROR_PARSING_DATA")

\* An asynchronous call of getAll, getFiles or getDirectories.
AsyncEnumeration ==
    object.entry \in {"getAll", "getFiles", "getDirectories"} /\ ~object.sync
Waiting == ret.status = "WAIT_FOR_ASYNC_OPERATION"

\* The number of invocations of the caller's callbacks.
Callbacks == Len(successes) + errors

\* C16: an asynchronous getAll, getFiles or getDirectories call that returned
\* WAIT_FOR_ASYNC_OPERATION has invoked no callback when it returns, and then
\* invokes exactly one of onSuccess / onError, exactly once; a call that
\* returned any other status never invokes a callback.
C16_OneCallbackIffWaiting ==
    /\ [][(\/ Calls("getAll")
           \/ Calls("getFiles")
           \/ Calls("getDirectories")) => successes' = <<>> /\ errors' = 0]_vars
    /\ [](AsyncEnumeration => Callbacks <= 1)
    /\ [](AsyncEnumeration /\ ~Waiting => Callbacks = 0 /\ pending = {})
    /\ (AsyncEnumeration /\ Waiting) ~> (Callbacks = 1 /\ pending = {})

C16_Witness ==
    /\ object.entry = "getDirectories" /\ ~object.sync /\ Waiting
    /\ errors = 1 /\ successes = <<>> /\ pending = {}

\* The names of directory d that satisfy the template and are of the kind.
NamesOfKind(d, kind) ==
    SelectSeq(Readdir(d),
              LAMBDA e : fs[e].kind = kind /\ Satisfies(object.template, FullName(e)))

Discovered == {e \in Entities : IsDirectory(e) /\ reads[fs[e].parent] > 0}

\* C18: in findDirectories, a discovered directory is collected exactly when it
\* satisfies the template, whether or not it was enumerated, and it is
\* enumerated whenever budget remained, whether or not it satisfies the
\* template: while the search ends below its budget every discovered directory
\* has been enumerated, and only discovered directories are enumerated.
C18_MatchingAndDescendingOrthogonal ==
    (FindDone /\ object.entry = "findDirectories") =>
        /\ DocumentedTemplate =>
              ResultSet =
                 {e \in Discovered : Satisfies(object.template, FullName(e))}
        /\ \A e \in Entities : reads[e] > 0 => e \in Discovered
        /\ ReadsIssued < SearchLimitOf(object) =>
              \A e \in Discovered : reads[e] = 1
        /\ ReadsIssued =
              IF Cardinality(Discovered) + 1 < SearchLimitOf(object)
              THEN Cardinality(Discovered) + 1 ELSE SearchLimitOf(object)

C18_Witness ==
    /\ FindDone /\ object.entry = "findDirectories"
    /\ object.template = TxtRegExp /\ object.searchLimit = 2
    /\ \E d \in Discovered, e \in Discovered :
          /\ ~Satisfies(object.template, FullName(d)) /\ reads[d] = 1
          /\ d \notin ResultSet
          /\ fs[e].parent = d /\ Satisfies(object.template, FullName(e))
          /\ reads[e] = 0 /\ e \in ResultSet

\* The options of the call, with the template left out.
WithoutTemplate ==
    [present |-> TRUE, sync |-> TRUE, hasOnSuccess |-> FALSE,
     template |-> NoTemplate]

\* C19: with a template that is neither a RegExp nor a string, getAll, getFiles,
\* getDirectories, findFiles and findDirectories hand over the entities the
\* same call hands over with no template.
C19_OtherTemplateFiltersNothing ==
    (/\ object.entry \in Enumerations /\ object.present
     /\ object.template = OtherTemplate) =>
        /\ (object.entry = "getAll" /\ Delivered) =>
              Items(DeliveredEnvelope.data) =
                 Items(GetAll(Root, WithoutTemplate, FreshWorld).env.data)
        /\ (object.entry = "getFiles" /\ Delivered) =>
              Items(DeliveredEnvelope.data) =
                 Items(GetFiles(Root, WithoutTemplate, FreshWorld).env.data)
        /\ (object.entry = "getDirectories" /\ Delivered) =>
              Items(DeliveredEnvelope.data) =
                 Items(GetDirectories(Root, WithoutTemplate, FreshWorld).env.data)
        /\ FindDone =>
              ResultSet = {e \in Entities : Wanted(e) /\ reads[fs[e].parent] > 0}

\* C20: in an asynchronous findFiles / findDirectories, when the enumeration of
\* an admitted directory reports a host error, the error is handed to the
\* caller's onError and onSuccess is never invoked for that search, while the
\* enumerations in flight still complete and are processed.
C20_ErrorNeverSuccess ==
    /\ [](IsFind /\ errors > 0 => successes = <<>> /\ processed < total)
    /\ [][(/\ IsFind /\ pending' # pending
           /\ processed' = processed /\ pending' \subseteq pending) =>
              errors' = errors + 1 /\ successes' = successes]_vars
    /\ [][(IsFind /\ errors > 0 /\ processed' # processed) =>
              processed' = processed + 1 /\ errors' = errors]_vars

C20_Witness ==
    /\ IsFind /\ ~object.sync /\ Waiting
    /\ errors = 1 /\ pending = {} /\ successes = <<>>
    /\ total = 3 /\ processed = 2
    /\ <<1, 3>> \in hist

\* C21: an asynchronous findFiles / findDirectories invokes the caller's
\* onError at most once per search, also when the enumerations of several
\* admitted directories fail.
C21_OnErrorAtMostOnce == IsFind => errors <= 1

\* C22: an asynchronous findFiles / findDirectories that returned the pending
\* status eventually invokes the caller's onSuccess or onError, whatever the
\* order of the callbacks and whatever happens to the filesystem and to the
\* trust gate meanwhile.
C22_RunsToCompletion == AsyncFindStarted ~> (Len(successes) > 0 \/ errors > 0)

\* C23: two asynchronous find* invocations in flight together each deliver to
\* their own onSuccess exactly what they would deliver if run alone, whatever
\* the order in which their branches complete: once both have no read in
\* flight, the envelopes each onSuccess received are those of a run of that
\* invocation alone.
C23_InvocationsIndependent ==
    (/\ IsFindCall(object) /\ IsFindCall(other.object)
     /\ pending = {} /\ other.st.pending = {})
    => /\ successes \in Alone(object)
       /\ other.successes \in Alone(other.object)

\* Both invocations searched below the root, the second was made after a
\* callback of the first, and both have delivered.
C23_Witness ==
    /\ IsFindCall(object) /\ IsFindCall(other.object)
    /\ pending = {} /\ other.st.pending = {}
    /\ processed >= 2 /\ other.st.processed >= 2
    /\ Len(successes) = 1 /\ Len(other.successes) = 1
    /\ object.entry # other.object.entry
    /\ Len(acc) > 0 /\ Len(other.st.acc) > 0

\* C24: the promise of getAllAsync, getFilesAsync, getDirectoriesAsync,
\* findFilesAsync and findDirectoriesAsync resolves only with an envelope whose
\* status is OK, ERROR_NOT_LOCAL_MODE or ERROR_PATH_DOES_NOT_EXIST, whatever
\* options the caller passes, and rejects only after the host reported an
\* I/O error.
C24_PromiseStatuses ==
    object.entry \in AsyncEntries =>
        /\ ret.status \in {"unsettled", "rejected", "OK", "ERROR_NOT_LOCAL_MODE",
                           "ERROR_PATH_DOES_NOT_EXIST"}
        /\ ret.status = "rejected" => errors > 0
        /\ ret.status = "OK" <=> ~IsNull(ret.data)

\* findFilesAsync resolved with its result by the callback of the last of
\* several branches.
C24_Witness ==
    /\ object.entry = "findFilesAsync"
    /\ ret.status = "OK" /\ Len(Items(ret.data)) > 0
    /\ processed >= 2 /\ pending = {}

\* C25: typed discovery filters by extension: the envelope a typed getter
\* returns with OK (or hands to onSuccess) holds exactly the direct child files
\* whose extension is one of the category's, the primary or the alternate.
C25_TypedByExtension ==
    object.entry \in TypedEntries =>
        \A env \in {ret} \cup Range(successes) :
            env.status = "OK" =>
                Range(Items(env.data)) =
                    {e \in Children(Root) :
                        /\ IsFile(e)
                        /\ ExtensionOf(FullName(e)) \in CategoryExtensions(object.entry)}

\* C26: for every key k and every JSON-representable value v, save(k, v,
\* {stringify: true, compress: true}) followed by load(k, {decompress: true,
\* parse: true}) returns status OK with data equal to v.
C26_RoundTrip ==
    (/\ object.entry = "WebStorage.load"
     /\ object.prev.call.entry = "WebStorage.save"
     /\ object.prev.call.key = object.key
     /\ object.prev.call.stringify /\ object.prev.call.compress
     /\ ~object.prev.call.hasOverwrite
     /\ object.decompress /\ object.parse)
    => /\ object.prev.status = "OK"
       /\ ret = Envelope(DataOf(object.prev.call.data), "OK")

\* An object saved over an existing item and loaded back.
C26_Witness ==
    /\ object.entry = "WebStorage.load"
    /\ object.prev.call.entry = "WebStorage.save"
    /\ object.prev.call.key = object.key
    /\ object.prev.call.stringify /\ object.prev.call.compress
    /\ ~object.prev.call.hasOverwrite
    /\ object.decompress /\ object.parse
    /\ object.prev.call.data = Value("v")
    /\ ret = Envelope(Some(Value("v")), "OK")
    /\ localStorage[object.key] = Compressed(JsonText(Value("v")))

\* A step that is a call of load / of save.
LoadStep == object'.entry = "WebStorage.load"
SaveStep == object'.entry = "WebStorage.save"

\* The string load works on, and the input of its parse stage.
LoadedString == localStorage[object'.key]
ParseInput == IF object'.decompress THEN object'.dz ELSE LoadedString

\* C27: save applies stringify then compress, load applies decompress then
\* parse, each stage only when enabled; a decompression that fails makes load
\* return ERROR_DECOMPRESSING_DATA with data null whether or not parse is
\* enabled, a parse that fails makes it return ERROR_PARSING_DATA with data
\* null; load leaves the storage as it is in every case.
C27_StagesAndFailures ==
    [][/\ LoadStep => localStorage' = localStorage
       /\ (LoadStep /\ LoadedString \notin {NoItem, Plain("")}) =>
             /\ (object'.decompress /\ object'.dz = Thrown)
                    => ret' = Failure("ERROR_DECOMPRESSING_DATA")
             /\ (ParseInput # Thrown /\ object'.parse /\ JsonParse(ParseInput) = Thrown)
                    => ret' = Failure("ERROR_PARSING_DATA")
             /\ (ParseInput # Thrown /\ ~object'.parse)
                    => ret' = Envelope(DataOf(ParseInput), "OK")
             /\ (ParseInput # Thrown /\ object'.parse /\ JsonParse(ParseInput) # Thrown)
                    => ret' = Envelope(DataOf(JsonParse(ParseInput)), "OK")
             /\ (object'.decompress /\ LoadedString.enc = "lz")
                    => object'.dz = LoadedString.text
       /\ (SaveStep /\ ret'.status = "OK") =>
             LET data == object'.data
                 stored == localStorage'[object'.key]
             IN /\ (~object'.stringify /\ ~object'.compress)
                       => stored = ToStoredString(data)
                /\ (object'.stringify /\ ~object'.compress)
                       => stored = JsonText(data)
                /\ (object'.stringify /\ object'.compress)
                       => stored = Compressed(JsonText(data))
                /\ (~object'.stringify /\ object'.compress /\ data = Plain("abc"))
                       => stored = Compressed(data)
      ]_vars

\* A load with both stages enabled whose decompression failed, after a save
\* that applied no stage.
C27_Witness ==
    /\ object.entry = "WebStorage.load" /\ object.decompress /\ object.parse
    /\ object.dz = Thrown
    /\ ret = Failure("ERROR_DECOMPRESSING_DATA")
    /\ object.prev.call.entry = "WebStorage.save" /\ object.prev.status = "OK"
    /\ object.prev.call.key = object.key
    /\ ~object.prev.call.stringify /\ ~object.prev.call.compress
    /\ localStorage[object.key] = Plain("abc")

\* A step that is a call of rename / of remove.
RenameStep == object'.entry = "WebStorage.rename"
RemoveStep == object'.entry = "WebStorage.remove"

\* C28: after rename(oldKey, newKey, overwrite) returns OK, newKey holds the
\* value oldKey held before the call, oldKey no longer exists when it differs
\* from newKey, and no other key changes: the renamed value is never lost,
\* oldKey = newKey with overwrite = true included.
C28_RenameKeepsValue ==
    [][(RenameStep /\ ret'.status = "OK") =>
          /\ localStorage'[object'.newKey] = localStorage[object'.oldKey]
          /\ object'.oldKey # object'.newKey
                => localStorage'[object'.oldKey] = NoItem
          /\ \A k \in Keys \ {object'.oldKey, object'.newKey} :
                localStorage'[k] = localStorage[k]
      ]_vars

StorageUnchanged == localStorage' = localStorage

\* C29: load, remove and rename on a key that does not exist return
\* ERROR_PATH_DOES_NOT_EXIST; save with overwrite = false and rename with
\* overwrite = false onto an existing key return
\* ERROR_OVERWRITING_IS_NOT_AVAILABLE; these and every other error outcome
\* leave every key as it was.  save called without an overwrite option
\* overwrites and returns OK.
C29_ErrorsLeaveStore ==
    [][/\ (LoadStep /\ ~HasKey(localStorage, object'.key)) =>
              ret' = Failure("ERROR_PATH_DOES_NOT_EXIST") /\ StorageUnchanged
       /\ (RemoveStep /\ ~HasKey(localStorage, object'.key)) =>
              ret'.status = "ERROR_PATH_DOES_NOT_EXIST" /\ StorageUnchanged
       /\ (RenameStep /\ ~HasKey(localStorage, object'.oldKey)) =>
              ret'.status = "ERROR_PATH_DOES_NOT_EXIST" /\ StorageUnchanged
       /\ (SaveStep /\ object'.hasOverwrite /\ ~object'.overwrite
              /\ HasKey(localStorage, object'.key)) =>
              ret'.status = "ERROR_OVERWRITING_IS_NOT_AVAILABLE" /\ StorageUnchanged
       /\ (RenameStep /\ HasKey(localStorage, object'.oldKey) /\ ~object'.overwrite
              /\ HasKey(localStorage, object'.newKey)) =>
              ret'.status = "ERROR_OVERWRITING_IS_NOT_AVAILABLE" /\ StorageUnchanged
       /\ ((LoadStep \/ RemoveStep \/ RenameStep \/ SaveStep) /\ ret'.status # "OK")
              => StorageUnchanged
       /\ (SaveStep /\ ~object'.hasOverwrite) =>
              /\ ret'.status = "OK"
              /\ HasKey(localStorage', object'.key) 
              /\ (~object'.stringify /\ ~object'.compress)
                    => localStorage'[object'.key] = ToStoredString(object'.data)
       /\ (RemoveStep /\ HasKey(localStorage, object'.key)) =>
              ret'.status = "OK" /\ ~HasKey(localStorage', object'.key)
      ]_vars

\* rename without overwrite refused onto an existing key, after a save without
\* an overwrite option wrote that key: both keys still hold their values.
C29_Witness ==
    /\ object.entry = "WebStorage.rename" /\ ~object.overwrite
    /\ object.oldKey # object.newKey
    /\ ret.status = "ERROR_OVERWRITING_IS_NOT_AVAILABLE"
    /\ localStorage[object.oldKey] = Plain("abc")
    /\ localStorage[object.newKey] = JsonText(JsNull)

\* C30: in local mode create() on a nonexistent path returns OK and the path
\* exists afterwards; create() on an existing path returns
\* ERROR_DIRECTORY_ALREADY_EXISTS without issuing mkdir.  Hence create() right
\* after a create() that returned OK returns ERROR_DIRECTORY_ALREADY_EXISTS,
\* and remove({sync: true}) right after it returns OK and leaves the path
\* nonexistent.
C30_CreateThenCreateOrRemove ==
    [][/\ (Calls("create") /\ localMode /\ ~Exists(Root)) =>
              /\ ret'.status = "OK"
              /\ fs'[Root].kind = "dir"
              /\ "mkdir" \in host'
       /\ (Calls("create") /\ localMode /\ Exists(Root)) =>
              /\ ret'.status = "ERROR_DIRECTORY_ALREADY_EXISTS"
              /\ "mkdir" \notin host'
              /\ fs' = fs
       /\ (Calls("create") /\ object.entry = "create" /\ ret.status = "OK") =>
              ret'.status = "ERROR_DIRECTORY_ALREADY_EXISTS"
       /\ (Calls("remove") /\ object'.sync
              /\ object.entry = "create" /\ ret.status = "OK") =>
              /\ ret'.status = "OK"
              /\ fs'[Root].kind = "none"
      ]_vars

\* create() has made a directory that did not exist.
C30_Witness ==
    /\ object.entry = "create" /\ localMode
    /\ ret.status = "OK" /\ "mkdir" \in host
    /\ IsDirectory(Root) /\ Children(Root) = {}

----------------------------------------------------------------------------
\* Properties of the order of the search

\* The depth of a node below the root.
RECURSIVE DepthOf(_)
DepthOf(e) == IF e = Root THEN 0 ELSE 1 + DepthOf(fs[e].parent)

\* The directories the search has admitted: the ones it enumerated.
Admitted == {d \in Nodes : IsDirectory(d) /\ reads[d] > 0}

\* A directory the budget left out although its parent was admitted.
LeftOut(d) ==
    /\ d \in Entities /\ IsDirectory(d)
    /\ d \notin Admitted /\ fs[d].parent \in Admitted

\* C31: the bounded search is breadth-first: at completion of findFiles /
\* findDirectories no directory at depth d + 1 has been admitted while a
\* directory at depth d, child of an admitted directory, was left unadmitted.
C31_BreadthFirst ==
    FindDone =>
        \A d \in Entities, e \in Entities :
            ~(/\ LeftOut(d)
              /\ e \in Admitted
              /\ DepthOf(e) = DepthOf(d) + 1)

\* The closure an asynchronous search ends with when the host completes the
\* reads in flight in the order of the directories' numbers.
RECURSIVE InOrderRun(_, _)
InOrderRun(o, st) ==
    LET inFlight == {d \in Nodes : ReadRequest(d) \in st.pending}
    IN IF inFlight = {} THEN st
       ELSE InOrderRun(o, FindCallback(
                o, st, CHOOSE d \in inFlight : \A x \in inFlight : d <= x))

\* C32: the result of an asynchronous find* is deterministic: whatever the
\* order in which the enumerations in flight complete, the set of entities
\* delivered to onSuccess and the set of directories admitted are those of the
\* run in which they complete in the order of the directories' numbers.
C32_OrderIndependent ==
    (FindDone /\ ~object.sync) =>
        LET st == InOrderRun(object, FindCall(object).st)
        IN /\ ResultSet = Range(st.acc)
           /\ Admitted = {d \in Nodes : st.reads[d] > 0}

RacingSearch ==
    /\ object = NoCall
    /\ object'.entry \in {"findFiles", "findDirectories"}
    /\ "gone" \in DOMAIN object'

\* The entries of directory d the search with options o collects.
Collects(o, d) ==
    {c \in Children(d) :
        /\ IF o.entry = "findFiles" THEN IsFile(c) ELSE IsDirectory(c)
        /\ Satisfies(o.template, FullName(c))}

\* C34: a synchronous find* that has passed its precondition checks returns
\* status OK: when the enumeration of an admitted subdirectory yields a non-OK
\* envelope (the subdirectory is gone), that subdirectory contributes nothing,
\* and what the other enumerated directories hold is returned.
C34_SyncAlwaysOk ==
    [][/\ (Calls("findFiles") \/ Calls("findDirectories")) /\ object'.sync
          /\ localMode /\ Exists(Root)
          => ret'.status = "OK" /\ ~IsNull(ret'.data)
       /\ RacingSearch /\ Exists(Root) =>
             /\ reads'[object'.gone] = 0
             /\ Range(Items(ret'.data)) \cap Below(object'.gone) = {}
             /\ \A d \in Nodes :
                   reads'[d] > 0 =>
                       Collects(object', d) \subseteq Range(Items(ret'.data))
      ]_vars

\* The search admitted a directory that held a file and was gone when it came
\* to enumerate it, and returned the files of the root.
C34_Witness ==
    /\ object.entry = "findFiles" /\ "gone" \in DOMAIN object
    /\ object.template = NoTemplate
    /\ ret.status = "OK" /\ Len(Items(ret.data)) > 0
    /\ total = 2 /\ ReadsIssued = 1
    /\ fs[object.gone] = Absent

\* What a call made with a fresh options object delivers to onSuccess.
FreshDelivery(entry) ==
    Wrapper(entry, GetAllProcessData(Readdir(Root), other.template))

\* C35: getFiles and getDirectories leave the caller's options object as it
\* was, so successive asynchronous calls that reuse one options object deliver
\* to the caller's onSuccess what calls with fresh options objects deliver.
C35_ReuseDeliversAsFresh ==
    (object.entry \in {"getFiles", "getDirectories"} /\ "wrappers" \in DOMAIN other)
        => \A k \in 1..Len(successes) :
               successes[k].env = FreshDelivery(successes[k].call)

\* C36: isEmpty() returns true only if the directory exists, may be enumerated
\* (local mode) and has no entry of any kind, and false for every directory
\* that holds at least one entry; remove() issues the host rmdir only for a
\* directory with no entries.
C36_EmptyMeansNoEntries ==
    [][/\ Calls("isEmpty") =>
             /\ ret'.status = "true" =>
                    localMode /\ Exists(Root) /\ Entries(Root) = {}
             /\ (Exists(Root) /\ Entries(Root) # {}) => ret'.status = "false"
       /\ (Calls("remove") /\ "rmdir" \in host') => Entries(Root) = {}
      ]_vars

\* isReady() / hasErrors()
IsReady == other.finished
HasErrors == other.errors > 0

\* The start() calls made so far.
Starts == 1..Len(other.starts)

\* start() k has made the preloader ready.
MadeReady(k) == k \in Starts /\ other.starts[k].then

\* Every resource that was in the queue at start() k has loaded.
QueueLoaded(k) ==
    k \in Starts /\ \A r \in other.starts[k].snapshot : other.resource[r] = "loaded"

\* A resource that was in the queue at start() k has failed.
QueueFailed(k) ==
    k \in Starts /\ \E r \in other.starts[k].snapshot : other.resource[r] = "failed"

\* C37: a start() makes isReady() true only once every resource that was in
\* the queue at that start() has loaded, and then it does (at once for an
\* empty queue, the then callback being a job of its own); if a resource of
\* that queue fails, this start() never makes the preloader ready and
\* hasErrors() becomes true; hasErrors() is false as long as no resource
\* queued at a start() has failed.
C37_ReadyAfterAllLoaded ==
    /\ [](IsPreloader =>
            /\ IsReady <=> \E k \in Starts : MadeReady(k)
            /\ \A k \in Starts : MadeReady(k) => QueueLoaded(k)
            /\ HasErrors => \E k \in Starts : QueueFailed(k))
    /\ \A k \in 1..MaxStarts : QueueLoaded(k) ~> IsReady
    /\ \A k \in 1..MaxStarts : QueueFailed(k) ~> (HasErrors /\ ~MadeReady(k))

\* One start() has made the preloader ready after the resource in its queue
\* loaded, while another start(), one of whose resources failed, has not, and
\* the failure is counted.
C37_Witness ==
    /\ IsPreloader /\ IsReady /\ HasErrors
    /\ \E k \in Starts :
          MadeReady(k) /\ other.starts[k].snapshot # {}
    /\ \E k \in Starts : ~MadeReady(k) /\ QueueFailed(k)

\* C38: when isReady() is true, every resource add() accepted before the
\* preloader reported ready has finished loading, a resource added after
\* start() included, and the failure of each is counted in hasErrors().
C38_EveryAcceptedAwaited ==
    (IsPreloader /\ IsReady) =>
        \A r \in other.early : other.resource[r] # "pending"

\* C39: setArrowType returns true if and only if the stored type after the
\* call differs from the one before (an absent type on an arrow of the
\* standard type null is no change), calls refreshAll exactly when it returns
\* true and blockRefreshAll is false, and leaves the arrow as it was when it
\* returns false; setAll counts that change in what it returns and calls
\* start() and activate() only when at least one parameter changed.
C39_ChangeReported ==
    /\ (IsArrow /\ other.last.method = "setArrowType") =>
          /\ other.last.result <=> other.arrowType # other.last.before
          /\ (other.last.type = Undefined /\ other.last.before = NullType)
                => ~other.last.result
          /\ other.last.refreshAll <=>
                (other.last.result /\ ~other.last.blockRefreshAll)
    /\ (IsArrow /\ other.last.method = "setAll") =>
          /\ other.last.result =
                other.last.changed +
                (IF other.arrowType # other.last.before THEN 1 ELSE 0)
          /\ ~other.last.refreshAll
          /\ other.last.started <=>
                (other.last.result > 0 /\ ~other.last.blockStart)
          /\ other.last.activated <=>
                (other.last.result > 0 /\ other.last.activate)

\* setArrowType() without a type on an 'up' arrow: the type is now null, the
\* call returned true and called refreshAll.
C39_Witness ==
    /\ IsArrow /\ other.last.method = "setArrowType"
    /\ other.last.type = Undefined /\ other.last.before = Str("up")
    /\ other.arrowType = NullType
    /\ other.last.result /\ other.last.refreshAll

====
